---- MODULE Spec2Model ----
(***************************************************************************)
(* A model of the editing core of vim_rs: the line buffer (text.rs), the   *)
(* count-prefix accumulator (task.rs), the undo/redo log (command.rs), the *)
(* cursor, viewport and selection (main.rs) and the modal key handlers     *)
(* (mode.rs), driven one key at a time by TextEditor::run.                 *)
(*                                                                         *)
(* Characters are one-character strings, a line is a sequence of           *)
(* characters, the buffer a sequence of lines.  Key::Char(c) is the        *)
(* character c itself; the other keys are the strings of SpecialKeys.      *)
(* Only ASCII characters occur, so byte offsets and character offsets of   *)
(* the Rust strings coincide.                                              *)
(*                                                                         *)
(* A Rust panic (index out of range, failed assert!, todo!, unwrap on      *)
(* None, checked arithmetic) ends the program: it is recorded in `failed`. *)
(* A loop that can make no progress is recorded in `hung`.                 *)
(***************************************************************************)
EXTENDS Integers, Sequences, FiniteSets, TLC

\* ------------------------------------------------------------------ bounds

\* Keys read from the terminal in one run.
MaxKeys == 4

\* Rows of the terminal (termion::terminal_size().1); the last row is the bar.
TermHeight == 4

\* Largest numeric prefix a run types; 10 is the smallest that ends in 0.
MaxCount == 10

\* ----------------------------------------------------------------- helpers

Min(a, b) == IF a < b THEN a ELSE b

Max(a, b) == IF a > b THEN a ELSE b

\* s[from .. to) with 0-based offsets, as a Rust slice.
Slice(s, from, to) == SubSeq(s, from + 1, to)

\* String::insert / Vec::insert at 0-based offset i.
InsertAt(s, i, c) == Slice(s, 0, i) \o <<c>> \o Slice(s, i, Len(s))

\* String::remove / Vec::remove at 0-based offset i.
RemoveAt(s, i) == Slice(s, 0, i) \o Slice(s, i + 1, Len(s))

RECURSIVE Concat(_)
Concat(ss) == IF ss = <<>> THEN <<>> ELSE Head(ss) \o Concat(Tail(ss))

\* ------------------------------------------------------------ keys, chars

Digits == {"0", "1", "2", "3", "4", "5", "6", "7", "8", "9"}

Letters ==
    {"a", "b", "c", "d", "e", "f", "g", "h", "i", "j", "k", "l",
     "m", "n", "o", "p", "q", "r", "s", "t", "u", "v", "w", "x",
     "y", "z", "A", "B", "C", "D", "E", "F", "G", "H", "I", "J",
     "K", "L", "M", "N", "O", "P", "Q", "R", "S", "T", "U", "V",
     "W", "X", "Y", "Z"}

SpecialKeys == {"Esc", "Backspace", "Delete", "Left", "Right", "Up", "Down",
                "Ctrl-q", "Ctrl-r"}

\* Key::Char(_)
IsChar(key) == key \notin SpecialKeys

\* char_at's "no character": 0 as char.
NUL == "NUL"

\* Option::None
None == "None"

is_alphabet(c) == c \in Letters \cup Digits

is_blank(c) == c \in {" ", "\n", "\t"}

is_numeric(c) == c \in Digits

DigitValue(c) ==
    CASE c = "0" -> 0 [] c = "1" -> 1 [] c = "2" -> 2 [] c = "3" -> 3
      [] c = "4" -> 4 [] c = "5" -> 5 [] c = "6" -> 6 [] c = "7" -> 7
      [] c = "8" -> 8 [] c = "9" -> 9

\* -------------------------------------------------------------------- Text
\* Every operation returns the new lines, its return value and whether it
\* panicked.

TextResult(l, r, p) == [lines |-> l, ret |-> r, panic |-> p]

char_at(lines, x, y) ==
    IF x >= Len(lines) \/ Len(lines[x + 1]) = 0 \/ y >= Len(lines[x + 1])
    THEN NUL
    ELSE lines[x + 1][y + 1]

\* lines.len() - 1 on an empty buffer: the subtraction panics when checked and
\* otherwise wraps, and the index that follows is then out of range.
insert_at(lines, x, y, c) ==
    IF Len(lines) = 0 THEN TextResult(lines, None, TRUE)
    ELSE LET cx == Min(x, Len(lines) - 1)
             cy == Min(y, Len(lines[cx + 1]))
         IN TextResult([lines EXCEPT ![cx + 1] = InsertAt(@, cy, c)], None, FALSE)

Text_len(lines) == Len(lines)

Text_delete_line_at(lines, x) ==
    IF Len(lines) = 0 THEN TextResult(lines, None, TRUE)
    ELSE LET cx == Min(x, Len(lines) - 1)
         IN TextResult(RemoveAt(lines, cx), lines[cx + 1], FALSE)

append_str_at(lines, x, y, s) ==
    IF Len(lines) = 0 THEN TextResult(lines, None, TRUE)
    ELSE LET cx == Min(x, Len(lines) - 1)
             cy == Min(y, Len(lines[cx + 1]))
         IN TextResult([lines EXCEPT ![cx + 1] =
                            Slice(@, 0, cy) \o s \o Slice(@, cy, Len(@))],
                       None, FALSE)

\* `0.max(y - 1)` with y = 0: usize subtraction panics when overflow checks are
\* on (checked) and wraps to usize::MAX when they are off, where String::remove
\* panics unless the line is empty and remove is skipped.
delete_at(lines, x, y, checked) ==
    IF Len(lines) = 0 THEN TextResult(lines, None, TRUE)
    ELSE LET cx == Min(x, Len(lines) - 1)
             line == lines[cx + 1]
             cy == Min(y, Len(line))
         IN IF cy = 0
            THEN TextResult(lines, None, checked \/ Len(line) > 0)
            ELSE TextResult([lines EXCEPT ![cx + 1] = RemoveAt(@, cy - 1)],
                            line[cy], FALSE)

Text_len_of_line_at(lines, line) == Len(lines[Min(line, Len(lines) - 1) + 1])

Text_len_of_line_at_panics(lines) == Len(lines) = 0

line_at(lines, line) == IF line >= Len(lines) THEN <<>> ELSE lines[line + 1]

push_line(lines, content) == Append(lines, content)

add_line_before(lines, idx, content) ==
    IF idx > Len(lines) THEN push_line(lines, content)
    ELSE InsertAt(lines, idx, content)

new_line_at(lines, x, index) ==
    IF Len(lines) = 0 THEN TextResult(lines, None, TRUE)
    ELSE LET cx == Min(x, Len(lines) - 1)
             ci == Min(index, Len(lines[cx + 1]))
             latter == Slice(lines[cx + 1], ci, Len(lines[cx + 1]))
             cut == [lines EXCEPT ![cx + 1] = Slice(@, 0, ci)]
         IN TextResult(add_line_before(cut, cx + 1, latter), None, FALSE)

\* The interior lines start.x+1 .. end.x-1, removed last first; each removal
\* appends the removed line and a newline to `deleted`.
RECURSIVE delete_interior(_, _, _, _)
delete_interior(lines, deleted, i, first) ==
    IF i < first THEN [lines |-> lines, deleted |-> deleted, panic |-> FALSE]
    ELSE IF Len(lines) = 0 THEN [lines |-> lines, deleted |-> deleted, panic |-> TRUE]
    ELSE delete_interior(Text_delete_line_at(lines, i).lines,
                         deleted \o Text_delete_line_at(lines, i).ret \o <<"\n">>,
                         i - 1, first)

\* start and end are Coordinates with x the line and y the column.  A slice
\* whose bounds leave the string, an index past the last line and a failed
\* assert! all panic.

\* The last step: a line left with nothing before start and nothing after end
\* is removed, and a newline is added to the deleted text.
delete_range_finish(lines, x, former, latter, deleted) ==
    IF Len(former) = 0 /\ Len(latter) = 0
    THEN TextResult(RemoveAt(lines, x), deleted \o <<"\n">>, FALSE)
    ELSE TextResult([lines EXCEPT ![x + 1] = former \o latter], deleted, FALSE)

\* start.x = end.x
delete_range_in_line(lines, start, end) ==
    IF \/ ~(start.y <= end.y)
       \/ start.x >= Len(lines)
       \/ end.y + 1 > Len(lines[start.x + 1])
    THEN TextResult(lines, <<>>, TRUE)
    ELSE delete_range_finish(lines, start.x,
                             Slice(lines[start.x + 1], 0, start.y),
                             Slice(lines[start.x + 1], end.y + 1,
                                   Len(lines[start.x + 1])),
                             Slice(lines[start.x + 1], start.y, end.y + 1))

\* start.x < end.x, after the interior lines are gone (mid): the two partial
\* lines are now start.x and start.x + 1.
delete_range_join(mid, start, end) ==
    IF \/ mid.panic
       \/ start.x + 1 >= Len(mid.lines)
       \/ start.y > Len(mid.lines[start.x + 1])
       \/ end.y + 1 > Len(mid.lines[start.x + 2])
    THEN TextResult(mid.lines, mid.deleted, TRUE)
    ELSE delete_range_finish(
             RemoveAt(mid.lines, start.x + 1), start.x,
             Slice(mid.lines[start.x + 1], 0, start.y),
             Slice(mid.lines[start.x + 2], end.y + 1, Len(mid.lines[start.x + 2])),
             mid.deleted
               \o Slice(mid.lines[start.x + 1], start.y, Len(mid.lines[start.x + 1]))
               \o <<"\n">>
               \o Slice(mid.lines[start.x + 2], 0, end.y + 1))

delete_range(lines, start, end) ==
    IF start.x = end.x THEN delete_range_in_line(lines, start, end)
    ELSE IF ~(start.x < end.x) THEN TextResult(lines, <<>>, TRUE)
    ELSE delete_range_join(delete_interior(lines, <<>>, end.x - 1, start.x + 1),
                           start, end)

\* -------------------------------------------------------------------- Task

MOVEMENT == {"j", "k", "h", "l", "e", "w", "b", " ", "Backspace",
             "Left", "Right", "Down", "Up"}

Task_push(tasks, key) == Append(tasks, key)

Task_len(tasks) == Len(tasks)

last_task(tasks) == IF tasks = <<>> THEN None ELSE tasks[Len(tasks)]

has_num(tasks) == \E i \in 1..Len(tasks) : IsChar(tasks[i]) /\ is_numeric(tasks[i])

\* usize::from_str_radix of the numeric characters, in order.
RECURSIVE ParseNum(_, _)
ParseNum(tasks, acc) ==
    IF tasks = <<>> THEN acc
    ELSE IF IsChar(Head(tasks)) /\ is_numeric(Head(tasks))
         THEN ParseNum(Tail(tasks), 10 * acc + DigitValue(Head(tasks)))
         ELSE ParseNum(Tail(tasks), acc)

\* None is -1.
num(tasks) == IF ~has_num(tasks) THEN -1 ELSE ParseNum(tasks, 0)

Task_clear(tasks) == <<>>

is_movement(tasks) == tasks # <<>> /\ last_task(tasks) \in MOVEMENT

\* The last two accumulated keys as a string, when there are two; None is
\* the empty sequence.
last_two_task(tasks) ==
    IF Len(tasks) < 2 THEN <<>>
    ELSE <<tasks[Len(tasks) - 1], tasks[Len(tasks)]>>

\* ------------------------------------------------------------- ActionStack

CmdAction(action, cur_line, pos, contents) ==
    [action |-> action, cur_line |-> cur_line, pos |-> pos, contents |-> contents]

EmptyStack == [backward_stack |-> <<>>, forward_stack |-> <<>>]

Pop(stack) == SubSeq(stack, 1, Len(stack) - 1)

Top(stack) == stack[Len(stack)]

\* Option<CmdAction>::None
NoAction == [action |-> "None"]

\* forward() forgetting the backward stack when there is nothing to redo.
forward_forgetting(s) ==
    IF s.forward_stack = <<>>
    THEN [stack |-> [s EXCEPT !.backward_stack = <<>>], action |-> NoAction]
    ELSE [stack |-> [backward_stack |-> Append(s.backward_stack, Top(s.forward_stack)),
                     forward_stack |-> Pop(s.forward_stack)],
          action |-> Top(s.forward_stack)]

\* Both return the stack and the action moved, or None.
forward(s) ==
    IF s.forward_stack = <<>> THEN [stack |-> s, action |-> NoAction]
    ELSE [stack |-> [backward_stack |-> Append(s.backward_stack, Top(s.forward_stack)),
                     forward_stack |-> Pop(s.forward_stack)],
          action |-> Top(s.forward_stack)]

backward(s) ==
    IF s.backward_stack = <<>> THEN [stack |-> s, action |-> NoAction]
    ELSE [stack |-> [backward_stack |-> Pop(s.backward_stack),
                     forward_stack |-> Append(s.forward_stack, Top(s.backward_stack))],
          action |-> Top(s.backward_stack)]

\* backward_stack.len() - 1 on an empty stack panics (or wraps and indexes out
\* of range): the three operations below require a top entry.
top_missing(s) == s.backward_stack = <<>>

discard_key_on_top(s) ==
    [s EXCEPT !.backward_stack[Len(s.backward_stack)].contents =
                  IF @ = <<>> THEN @ ELSE Pop(@)]

append_key_to_top(s, key) ==
    [s EXCEPT !.backward_stack[Len(s.backward_stack)].contents = Append(@, key)]

append_string_to_top(s, str) ==
    [s EXCEPT !.backward_stack[Len(s.backward_stack)].contents = @ \o str]

add_action(s, action, cur_line, pos) ==
    [s EXCEPT !.backward_stack = Append(@, CmdAction(action, cur_line, pos, <<>>))]

\* ---------------------------------------------------------------- TextView

move_down(v, n) == [lower_line |-> v.lower_line + n, upper_line |-> v.upper_line + n]

move_up(v, n) ==
    IF v.upper_line = 0 THEN v
    ELSE IF n > v.lower_line
         THEN [lower_line |-> 0, upper_line |-> v.upper_line - v.lower_line]
         ELSE [lower_line |-> v.lower_line - n, upper_line |-> v.upper_line - n]

shrink_upper(v) == IF v.upper_line > 0 THEN [v EXCEPT !.upper_line = @ - 1] ELSE v

expand_upper(v) == [v EXCEPT !.upper_line = @ + 1]

\* -------------------------------------------------------------- SelectView

Coordinates(x, y) == [x |-> x, y |-> y]

CharacterView(start, end) == [kind |-> "CharacterView", start |-> start, end |-> end]

LineView(start, end) == [kind |-> "LineView", start |-> start, end |-> end]

NoView == [kind |-> "None"]

BlockView(start, end) == [kind |-> "BlockView", start |-> start, end |-> end]

\* No selection makes sort_select_view panic.
sort_select_view_never_panics(sv) == FALSE

\* todo!() on a BlockView
sort_select_view_panics(sv) == sv.kind = "BlockView"

\* The selection is used as it was made, its ends not put in order.
sort_select_view_unsorted(sv) == sv

sort_select_view(sv) ==
    CASE sv.kind = "CharacterView" ->
            IF \/ sv.end.y < sv.start.y
               \/ sv.start.y = sv.end.y /\ sv.end.x < sv.start.x
            THEN CharacterView(sv.end, sv.start)
            ELSE sv
      [] sv.kind = "LineView" ->
            IF sv.end < sv.start THEN LineView(sv.end, sv.start) ELSE sv
      [] OTHER -> sv

\* -------------------------------------------------------------- TextEditor
\* An editor value e is a record of the fields of TextEditor, the build's
\* overflow-check setting (checked), the two ways a handler can fail to come
\* back (failed, hung), and the value the last call returned: ok for a bool,
\* ret for an Option<char>, str for a String, next for a Mode.  Every
\* operation leaves an editor that has failed or hung as it is, so that
\* g(f(e)) reads "f, then g".

Modes == {"Normal", "Visual", "Insert", "Command", "Exit"}

Fail(e) == [e EXCEPT !.failed = TRUE]

Hang(e) == [e EXCEPT !.hung = TRUE]

Stopped(e) == e.failed \/ e.hung

\* self.text after a Text operation with result r; its panic ends the program.
WithText(e, r) ==
    IF Stopped(e) THEN e ELSE [e EXCEPT !.text = r.lines, !.failed = r.panic]

\* The same, keeping the String it returned.
WithTextStr(e, r) ==
    IF Stopped(e) THEN e
    ELSE [e EXCEPT !.text = r.lines, !.failed = r.panic, !.str = r.ret]

\* The same, keeping the Option<char> it returned.
WithTextRet(e, r) ==
    IF Stopped(e) THEN e
    ELSE [e EXCEPT !.text = r.lines, !.failed = r.panic, !.ret = r.ret]

SetOk(e, b) == IF Stopped(e) THEN e ELSE [e EXCEPT !.ok = b]

max_y(e) == TermHeight - 1

text_length(e) == Text_len(e.text)

\* unimplemented!() in a mode other than the four, and Text::len_of_line_at on
\* an empty buffer.
len_of_line_at_panics(e) ==
    \/ e.mode \notin {"Normal", "Visual", "Command", "Insert"}
    \/ Text_len_of_line_at_panics(e.text)

len_of_line_at(e, line) ==
    IF e.mode = "Insert"
    THEN Max(1, Text_len_of_line_at(e.text, line) + 1)
    ELSE Max(1, Text_len_of_line_at(e.text, line))

len_of_cur_line_panics(e) == e.cur_line = 0 \/ len_of_line_at_panics(e)

len_of_cur_line(e) == len_of_line_at(e, e.cur_line - 1)

cur_char(e) == char_at(e.text, e.cur_line - 1, e.cur_pos.x - 1)

set_pos(e, x, y) == IF Stopped(e) THEN e ELSE [e EXCEPT !.cur_pos = Coordinates(x, y)]

set_cur_line(e, line) == IF Stopped(e) THEN e ELSE [e EXCEPT !.cur_line = line]

change_mode_immediately(e, m) == IF Stopped(e) THEN e ELSE [e EXCEPT !.mode = m]

\* The selection is left as it was.
set_visual_mode_kept(e, sv) == e

set_visual_mode(e, sv) == IF Stopped(e) THEN e ELSE [e EXCEPT !.select_view = sv]

move_to_end_of_line(e) ==
    IF Stopped(e) THEN e
    ELSE IF len_of_cur_line_panics(e) THEN Fail(e)
    ELSE [e EXCEPT !.cur_pos.x = len_of_cur_line(e)]

move_to_start_of_line(e) ==
    IF Stopped(e) THEN e ELSE [e EXCEPT !.cur_pos.x = 1]

RECURSIVE first_char_loop(_)
first_char_loop(e) ==
    IF len_of_cur_line_panics(e) THEN Fail(e)
    ELSE IF e.cur_pos.x < len_of_cur_line(e) /\ is_blank(cur_char(e))
         THEN first_char_loop([e EXCEPT !.cur_pos.x = @ + 1])
         ELSE e

move_to_first_char_of_line(e) ==
    IF Stopped(e) THEN e ELSE first_char_loop([e EXCEPT !.cur_pos.x = 1])

inc_x(e) ==
    IF Stopped(e) THEN e
    ELSE IF len_of_cur_line_panics(e) THEN Fail(e)
    ELSE IF e.cur_pos.x < len_of_cur_line(e) THEN [e EXCEPT !.cur_pos.x = @ + 1]
    ELSE e

dec_x(e) ==
    IF Stopped(e) THEN e
    ELSE IF e.cur_pos.x > 1 THEN [e EXCEPT !.cur_pos.x = @ - 1]
    ELSE e

\* The screen row goes down to at most `last`; at the bottom the viewport
\* scrolls down instead, if lines remain below it.
row_down(e, last) ==
    IF Stopped(e) THEN e
    ELSE IF e.cur_pos.y < last THEN [e EXCEPT !.cur_pos.y = @ + 1]
    ELSE IF e.view.upper_line < text_length(e) THEN [e EXCEPT !.view = move_down(@, 1)]
    ELSE e

\* The screen row goes up; on the first row the viewport scrolls up instead.
row_up(e) ==
    IF Stopped(e) THEN e
    ELSE IF e.cur_pos.y > 1 THEN [e EXCEPT !.cur_pos.y = @ - 1]
    ELSE [e EXCEPT !.view = move_up(@, 1)]

line_down(e) ==
    IF Stopped(e) THEN e
    ELSE IF e.cur_line < text_length(e) THEN [e EXCEPT !.cur_line = @ + 1]
    ELSE e

line_up(e) ==
    IF Stopped(e) THEN e
    ELSE IF e.cur_line > 1 THEN [e EXCEPT !.cur_line = @ - 1]
    ELSE e

inc_y(e) ==
    IF Stopped(e) THEN e ELSE line_down(row_down(e, Min(max_y(e), text_length(e))))

dec_y(e) == line_up(row_up(e))

\* Both report in ok whether the cursor moved.
backward_to_next_char(e) ==
    IF Stopped(e) THEN e
    ELSE IF e.cur_pos.x = 1
    THEN IF e.cur_line > 1
         THEN SetOk(move_to_end_of_line(line_up(row_up(e))), TRUE)
         ELSE SetOk(e, FALSE)
    ELSE [e EXCEPT !.cur_pos.x = @ - 1, !.ok = TRUE]

forward_to_next_char(e) ==
    IF Stopped(e) THEN e
    ELSE IF len_of_cur_line_panics(e) THEN Fail(e)
    ELSE IF e.cur_pos.x = len_of_cur_line(e)
    THEN IF e.cur_line < text_length(e)
         THEN SetOk(move_to_start_of_line(line_down(row_down(e, max_y(e)))), TRUE)
         ELSE SetOk(e, FALSE)
    ELSE [e EXCEPT !.cur_pos.x = @ + 1, !.ok = TRUE]

\* The loop `while is_alphabet(cur_char()) { if !step() { return } if the line
\* changed { break } }` of the three word helpers; ok = FALSE reports the early
\* return.  `stepped` is the editor after the step taken from e.
RECURSIVE forward_while_alphabet(_)
forward_while_alphabet_next(e, stepped) ==
    IF Stopped(stepped) \/ ~stepped.ok THEN stepped
    ELSE IF stepped.cur_line # e.cur_line THEN stepped
    ELSE forward_while_alphabet(stepped)

forward_while_alphabet(e) ==
    IF Stopped(e) THEN e
    ELSE IF ~is_alphabet(cur_char(e)) THEN SetOk(e, TRUE)
    ELSE forward_while_alphabet_next(e, forward_to_next_char(e))

RECURSIVE backward_while_alphabet(_)
backward_while_alphabet_next(e, stepped) ==
    IF Stopped(stepped) \/ ~stepped.ok THEN stepped
    ELSE IF stepped.cur_line # e.cur_line THEN stepped
    ELSE backward_while_alphabet(stepped)

backward_while_alphabet(e) ==
    IF Stopped(e) THEN e
    ELSE IF ~is_alphabet(cur_char(e)) THEN SetOk(e, TRUE)
    ELSE backward_while_alphabet_next(e, backward_to_next_char(e))

\* The loop `while !is_alphabet(cur_char()) { step(); }`: a step that cannot
\* move leaves the state as it was, and the loop never ends.
RECURSIVE forward_until_alphabet(_)
forward_until_alphabet_next(stepped) ==
    IF Stopped(stepped) THEN stepped
    ELSE IF ~stepped.ok THEN Hang(stepped)
    ELSE forward_until_alphabet(stepped)

forward_until_alphabet(e) ==
    IF Stopped(e) THEN e
    ELSE IF is_alphabet(cur_char(e)) THEN e
    ELSE forward_until_alphabet_next(forward_to_next_char(e))

RECURSIVE backward_until_alphabet(_)
backward_until_alphabet_next(stepped) ==
    IF Stopped(stepped) THEN stepped
    ELSE IF ~stepped.ok THEN Hang(stepped)
    ELSE backward_until_alphabet(stepped)

backward_until_alphabet(e) ==
    IF Stopped(e) THEN e
    ELSE IF is_alphabet(cur_char(e)) THEN e
    ELSE backward_until_alphabet_next(backward_to_next_char(e))

\* The step forward after the loop is never taken.
step_forward_never(e) == e

\* The step after the loop, skipped by the early return.
step_back_unless_returned(e) ==
    IF Stopped(e) \/ ~e.ok THEN e ELSE backward_to_next_char(e)

step_forward_unless_returned(e) ==
    IF Stopped(e) \/ ~e.ok THEN e ELSE forward_to_next_char(e)

forward_to_end_of_cur_word(e) ==
    IF Stopped(e) THEN e
    ELSE IF ~is_alphabet(cur_char(e)) THEN Fail(e)
    ELSE step_back_unless_returned(forward_while_alphabet(e))

forward_to_start_of_cur_word(e) ==
    IF Stopped(e) THEN e
    ELSE IF ~is_alphabet(cur_char(e)) THEN Fail(e)
    ELSE step_forward_unless_returned(backward_while_alphabet(e))

\* if is_alphabet(cur_char()) { forward_to_start_of_cur_word() } else { loop }
backward_word_or_blank(e) ==
    IF Stopped(e) THEN e
    ELSE IF is_alphabet(cur_char(e)) THEN forward_to_start_of_cur_word(e)
    ELSE backward_until_alphabet(e)

forward_word_or_blank(e) ==
    IF Stopped(e) THEN e
    ELSE IF is_alphabet(cur_char(e)) THEN forward_to_end_of_cur_word(e)
    ELSE forward_until_alphabet(e)

backward_to_start_of_next_word(e) ==
    forward_to_start_of_cur_word(backward_word_or_blank(backward_to_next_char(e)))

forward_to_end_of_next_word(e) ==
    forward_to_end_of_cur_word(forward_word_or_blank(forward_to_next_char(e)))

until_alphabet_unless_returned(e) ==
    IF Stopped(e) \/ ~e.ok THEN e ELSE forward_until_alphabet(e)

forward_to_start_of_next_word(e) ==
    until_alphabet_unless_returned(forward_while_alphabet(e))

\* The viewport grows and shrinks only while the document is shorter than the
\* text area.
expand_if_short(e) ==
    IF Stopped(e) THEN e
    ELSE IF text_length(e) < TermHeight - 1 THEN [e EXCEPT !.view = expand_upper(@)]
    ELSE e

shrink_if_short(e) ==
    IF Stopped(e) THEN e
    ELSE IF text_length(e) < TermHeight - 1 THEN [e EXCEPT !.view = shrink_upper(@)]
    ELSE e

new_line_ahead(e) ==
    IF Stopped(e) THEN e
    ELSE expand_if_short(move_to_start_of_line(
             [e EXCEPT !.text = add_line_before(@, e.cur_pos.y - 1, <<>>)]))

new_line_behind(e) ==
    IF Stopped(e) THEN e
    ELSE IF len_of_cur_line_panics(e) THEN Fail(e)
    ELSE expand_if_short(move_to_start_of_line(inc_y(
             WithText(e, new_line_at(e.text, e.cur_pos.y - 1, len_of_cur_line(e))))))

new_line(e) ==
    expand_if_short(move_to_start_of_line(inc_y(
        WithText(e, new_line_at(e.text, e.cur_pos.y - 1, e.cur_pos.x - 1)))))

\* TextEditor::delete_line_at; the removed line is returned in str.
delete_line_at(e, index) ==
    shrink_if_short(WithTextStr(e, Text_delete_line_at(e.text, index)))

delete_cur_line(e) == delete_line_at(e, e.cur_line - 1)

\* The line below, removed into str, is appended to the current line.
join_removed_line(e) ==
    IF Stopped(e) THEN e
    ELSE IF len_of_cur_line_panics(e) THEN Fail(e)
    ELSE WithTextRet(e, append_str_at(e.text, e.cur_line - 1, len_of_cur_line(e),
                                      e.str))

\* The removed character, or None, is returned in ret.
delete_cur_char(e) ==
    IF Stopped(e) THEN e
    ELSE IF cur_char(e) = NUL
    THEN IF e.cur_line < text_length(e)
         THEN join_removed_line(delete_line_at(e, e.cur_line))
         ELSE [e EXCEPT !.ret = None]
    ELSE WithTextRet(e, delete_at(e.text, e.cur_line - 1, e.cur_pos.x, e.checked))

insert_char_at(e, c, x, y) ==
    IF c = "\n" THEN new_line(e) ELSE WithText(e, insert_at(e.text, x, y, c))

append_char_at_cur(e, c) ==
    IF Stopped(e) THEN e
    ELSE IF c = "\n" THEN new_line(e)
    ELSE inc_x(insert_char_at(e, c, e.cur_line - 1, e.cur_pos.x - 1))

\* ------------------------------------------------------- selection queries

is_select_end_in(v, col, line) ==
    CASE v.kind = "CharacterView" ->
            line > v.end.y \/ (col >= v.end.x /\ line = v.end.y)
      [] v.kind = "LineView" -> col >= v.end
      [] OTHER -> FALSE

is_select_end(e, col, line) ==
    is_select_end_in(sort_select_view(e.select_view), col, line)

is_select_start_in(v, col, line) ==
    CASE v.kind = "CharacterView" ->
            /\ line > v.start.y \/ (col >= v.start.x /\ line = v.start.y)
            /\ line < v.end.y \/ (line = v.end.y /\ col <= v.end.x)
      [] v.kind = "LineView" -> line >= v.start /\ line <= v.end
      [] OTHER -> FALSE

is_select_start(e, col, line) ==
    is_select_start_in(sort_select_view(e.select_view), col, line)

\* if !contents.is_empty() { add_action(Delete, ..); append_string_to_top(..) },
\* the contents being in str.
record_deleted(e) ==
    IF Stopped(e) \/ e.str = <<>> THEN e
    ELSE [e EXCEPT !.action_stack =
              append_string_to_top(add_action(@, "Delete", e.cur_line, e.cur_pos),
                                   e.str)]

\* delete_selected on the sorted selection v.
delete_sorted(e, v) ==
    CASE v.kind = "CharacterView" ->
            record_deleted(WithTextStr(
                set_cur_line(set_pos(e, v.start.x + 1, v.start.y + 1), v.start.y + 1),
                delete_range(e.text, Coordinates(v.start.y, v.start.x),
                             Coordinates(v.end.y, v.end.x))))
      [] v.kind = "LineView" ->
            IF len_of_line_at_panics(e) THEN Fail(e)
            ELSE record_deleted(WithTextStr(
                     set_cur_line(set_pos(e, 1, v.start + 1), v.start + 1),
                     delete_range(e.text, Coordinates(v.start, 0),
                                  Coordinates(v.end, len_of_line_at(e, v.end) - 1))))
      [] OTHER -> e

delete_selected(e) ==
    IF Stopped(e) THEN e
    ELSE IF sort_select_view_panics(e.select_view) THEN Fail(e)
    ELSE delete_sorted(e, sort_select_view(e.select_view))

update_visual_pos(e) ==
    IF Stopped(e) \/ e.mode # "Visual" THEN e
    ELSE CASE e.select_view.kind = "CharacterView" ->
                 [e EXCEPT !.select_view =
                     CharacterView(e.select_view.start,
                                   Coordinates(e.cur_pos.x - 1, e.cur_line - 1))]
           [] e.select_view.kind = "LineView" ->
                 [e EXCEPT !.select_view = LineView(e.select_view.start, e.cur_line - 1)]
           [] e.select_view.kind = "BlockView" -> Fail(e)
           [] OTHER -> e

\* ------------------------------------------------------------------- flush
\* What redrawing the screen does to the editor: the cursor is parked on the
\* bar while in Command mode and restored afterwards, and its column is
\* clamped to the current line.

\* saved_pos = None
NoPos == [x |-> 0, y |-> 0]

\* "COMMAND".len() + 2, the column of the bar where the command line starts.
BarColumn == 9

\* The cursor goes back to old_pos, its column clamped.
flush_restore(e, old_pos) ==
    IF len_of_cur_line_panics(e) THEN Fail(e)
    ELSE set_pos(e, Min(old_pos.x, len_of_cur_line(e)), old_pos.y)

flush(e) ==
    IF Stopped(e) THEN e
    ELSE IF e.mode = "Command"
    THEN set_pos([e EXCEPT !.saved_pos = IF @ = NoPos THEN e.cur_pos ELSE @],
                 BarColumn + Len(line_at(e.bar_text, 0)), TermHeight)
    ELSE flush_restore([e EXCEPT !.saved_pos = NoPos],
                       IF e.saved_pos # NoPos THEN e.saved_pos ELSE e.cur_pos)

\* ---------------------------------------------------------------- handlers
\* A handler returns the editor with the Mode it returned in next.

Return(e, m) == IF Stopped(e) THEN e ELSE [e EXCEPT !.next = m]

\* No action is pushed.
push_action_skipped(e, kind) == e

\* add_action(kind, editor.cur_line, editor.cur_pos)
push_action(e, kind) ==
    IF Stopped(e) THEN e
    ELSE [e EXCEPT !.action_stack = add_action(@, kind, e.cur_line, e.cur_pos)]

\* if !processing_action { append_key_to_top(key) }
record_key(e, key) ==
    IF Stopped(e) \/ e.processing_action THEN e
    ELSE IF top_missing(e.action_stack) THEN Fail(e)
    ELSE [e EXCEPT !.action_stack = append_key_to_top(@, key)]

\* if !processing_action { discard_key_on_top() }
unrecord_key(e) ==
    IF Stopped(e) \/ e.processing_action THEN e
    ELSE IF top_missing(e.action_stack) THEN Fail(e)
    ELSE [e EXCEPT !.action_stack = discard_key_on_top(@)]

\* text.insert_at(x, y, c); inc_x()
insert_and_advance(e, x, y, c) == inc_x(WithText(e, insert_at(e.text, x, y, c)))

\* for _ in 0..4 { text.insert_at(x, y, ' '); inc_x() }, x and y read before it.
insert_tab(e, x, y) ==
    insert_and_advance(insert_and_advance(insert_and_advance(insert_and_advance(
        e, x, y, " "), x, y, " "), x, y, " "), x, y, " ")

insert_char(e, key) ==
    IF key = "\n" THEN new_line(e)
    ELSE IF key = "\t" THEN insert_tab(e, e.cur_line - 1, e.cur_pos.x - 1)
    ELSE insert_and_advance(e, e.cur_line - 1, e.cur_pos.x - 1, key)

insert_backspace(e) ==
    IF e.cur_pos.x - 1 = 0
    THEN IF e.cur_line - 1 # 0
         THEN move_to_end_of_line(dec_y(delete_line_at(e, e.cur_line - 1)))
         ELSE e
    ELSE dec_x(WithText(e, delete_at(e.text, e.cur_line - 1, e.cur_pos.x - 1,
                                     e.checked)))

handle_insert(e, key) ==
    IF Stopped(e) THEN e
    ELSE IF IsChar(key) THEN Return(record_key(insert_char(e, key), key), "Insert")
    ELSE CASE key = "Left" -> Return(push_action(dec_x(e), "Insert"), "Insert")
           [] key = "Down" -> Return(push_action(inc_y(e), "Insert"), "Insert")
           [] key = "Up" -> Return(push_action(dec_y(e), "Insert"), "Insert")
           [] key = "Right" -> Return(push_action(inc_x(e), "Insert"), "Insert")
           [] key = "Backspace" -> Return(unrecord_key(insert_backspace(e)), "Insert")
           [] key = "Delete" -> Return(delete_cur_char(e), "Insert")
           [] key = "Esc" -> Return(dec_x(e), "Normal")
           [] key = "Ctrl-q" -> Return(e, "Exit")
           [] OTHER -> Return(e, "Insert")

handle_visual(e, key) ==
    IF Stopped(e) THEN e
    ELSE CASE key = "Esc" -> Return(set_visual_mode(e, NoView), "Normal")
           [] key = "Ctrl-q" -> Return(update_visual_pos(e), "Exit")
           [] key \in {"h", "Left"} -> Return(update_visual_pos(dec_x(e)), "Visual")
           [] key \in {"j", "Down"} -> Return(update_visual_pos(inc_y(e)), "Visual")
           [] key \in {"k", "Up"} -> Return(update_visual_pos(dec_y(e)), "Visual")
           [] key \in {"l", "Right"} -> Return(update_visual_pos(inc_x(e)), "Visual")
           [] key = "c" ->
                Return(update_visual_pos(push_action(
                           set_visual_mode(delete_selected(e), NoView), "Insert")),
                       "Insert")
           [] key = "d" -> Return(set_visual_mode(delete_selected(e), NoView), "Normal")
           [] OTHER -> Return(update_visual_pos(e), "Visual")

\* handle_command without its Ctrl-q arm.
handle_command_without_quit(e, key) ==
    IF Stopped(e) THEN e
    ELSE CASE key = "Esc" -> Return(e, "Normal")
           [] OTHER -> Return(e, "Command")

handle_command(e, key) ==
    IF Stopped(e) THEN e
    ELSE CASE key = "Esc" -> Return(e, "Normal")
           [] key = "Ctrl-q" -> Return(e, "Exit")
           [] OTHER -> Return(e, "Command")

RECURSIVE handle_normal(_, _)

\* The key is handled once, whatever the count.
repeat_normal_once(e, key, n) ==
    IF n = 0 \/ Stopped(e) THEN e ELSE handle_normal(e, key)

\* for _ in 0..n { Mode::handle_normal(self, key); }
RECURSIVE repeat_normal(_, _, _)
repeat_normal(e, key, n) ==
    IF n = 0 \/ Stopped(e) THEN e ELSE repeat_normal(handle_normal(e, key), key, n - 1)

clear_task(e) == IF Stopped(e) THEN e ELSE [e EXCEPT !.task = Task_clear(@)]

set_processing_task(e, b) == IF Stopped(e) THEN e ELSE [e EXCEPT !.processing_task = b]

\* The body of try_perform_task, between setting and clearing processing_task.
perform_task(e) ==
    IF is_movement(e.task)
    THEN IF ~has_num(e.task) THEN Fail(e)
         ELSE clear_task(repeat_normal(e, last_task(e.task), num(e.task)))
    ELSE IF last_two_task(e.task) = <<"d", "d">>
         THEN clear_task(delete_cur_line(e))
         ELSE e

try_perform_task(e) ==
    set_processing_task(perform_task(set_processing_task(e, TRUE)), FALSE)

\* Every digit is pushed, a 0 with no count before it too.
accumulates_every_digit(tasks, key) ==
    CASE key \in Digits -> TRUE
      [] key \in MOVEMENT -> has_num(tasks)
      [] key \in {"i", "a"} -> Task_len(tasks) > 0
      [] key \in {"c", "d", "y"} -> TRUE
      [] OTHER -> FALSE

\* Whether pre_handle_normal pushes the key onto the task.
accumulates(tasks, key) ==
    CASE key \in Digits -> ~(key = "0" /\ ~has_num(tasks))
      [] key \in MOVEMENT -> has_num(tasks)
      [] key \in {"i", "a"} -> Task_len(tasks) > 0
      [] key \in {"c", "d", "y"} -> TRUE
      [] OTHER -> FALSE

\* ok reports whether the key was taken by the accumulator.
pre_handle_normal(e, key) ==
    IF accumulates(e.task, key)
    THEN SetOk(try_perform_task([e EXCEPT !.task = Task_push(@, key)]), TRUE)
    ELSE SetOk(e, FALSE)

\* Delete => append_char_at_cur for each recorded Key::Char; any other key is
\* unreachable!().
RECURSIVE revoke_delete(_, _)
revoke_delete(e, contents) ==
    IF contents = <<>> \/ Stopped(e) THEN e
    ELSE IF ~IsChar(Head(contents)) THEN Fail(e)
    ELSE revoke_delete(append_char_at_cur(e, Head(contents)), Tail(contents))

\* Insert => one delete_cur_char per recorded key, four for a tab.
RECURSIVE revoke_insert(_, _)
revoke_insert(e, contents) ==
    IF contents = <<>> \/ Stopped(e) THEN e
    ELSE IF Head(contents) = "\t"
    THEN revoke_insert(delete_cur_char(delete_cur_char(delete_cur_char(
                           delete_cur_char(e)))), Tail(contents))
    ELSE revoke_insert(delete_cur_char(e), Tail(contents))

set_processing_action(e, b) ==
    IF Stopped(e) THEN e ELSE [e EXCEPT !.processing_action = b]

\* set_pos(action.pos.x, action.pos.y); self.cur_line = action.cur_line
move_to_anchor(e, action) ==
    set_cur_line(set_pos(e, action.pos.x, action.pos.y), action.cur_line)

revoke_some(e, action) ==
    IF action = NoAction THEN e
    ELSE IF action.action = "Delete"
    THEN revoke_delete(move_to_anchor(e, action), action.contents)
    ELSE revoke_insert(move_to_anchor(e, action), action.contents)

revoke_action(e, action) ==
    set_processing_action(revoke_some(set_processing_action(e, TRUE), action), FALSE)

RECURSIVE restore_insert(_, _)
restore_insert(e, contents) ==
    IF contents = <<>> \/ Stopped(e) THEN e
    ELSE restore_insert(handle_insert(e, Head(contents)), Tail(contents))

RECURSIVE restore_delete(_, _)
restore_delete(e, contents) ==
    IF contents = <<>> \/ Stopped(e) THEN e
    ELSE restore_delete(handle_normal(e, "x"), Tail(contents))

restore_some(e, action) ==
    IF action = NoAction THEN e
    ELSE IF action.action = "Insert"
    THEN restore_insert(IF e.repeating_action THEN e ELSE move_to_anchor(e, action),
                        action.contents)
    ELSE restore_delete(IF e.repeating_action THEN e ELSE move_to_anchor(e, action),
                        action.contents)

clear_repeating(e) == IF Stopped(e) THEN e ELSE [e EXCEPT !.repeating_action = FALSE]

restore_action(e, action) ==
    clear_repeating(set_processing_action(
        restore_some(set_processing_action(e, TRUE), action), FALSE))

\* The stack after forward() or backward(), then the replay of what it gave.
redo(e, moved) == restore_action([e EXCEPT !.action_stack = moved.stack], moved.action)

undo(e, moved) == revoke_action([e EXCEPT !.action_stack = moved.stack], moved.action)

\* if let Some(c) = c { if !processing_action { append_key_to_top(Key::Char(c)) } }
record_removed(e) ==
    IF Stopped(e) \/ e.ret = None THEN e ELSE record_key(e, e.ret)

normal_x(e) == record_removed(push_action(delete_cur_char(e), "Delete"))

\* The match of handle_normal, after the accumulator declined the key.
normal_key(e, key) ==
    CASE key = "Ctrl-q" -> Return(e, "Exit")
      [] key \in {"h", "Left"} -> Return(dec_x(e), "Normal")
      [] key \in {"j", "Down"} -> Return(inc_y(e), "Normal")
      [] key \in {"k", "Up"} -> Return(dec_y(e), "Normal")
      [] key \in {"l", "Right"} -> Return(inc_x(e), "Normal")
      [] key = "A" ->
           Return(push_action(move_to_end_of_line(change_mode_immediately(e, "Insert")),
                              "Insert"), "Insert")
      [] key = "I" ->
           Return(push_action(move_to_first_char_of_line(
                                  change_mode_immediately(e, "Insert")), "Insert"),
                  "Insert")
      [] key = "$" -> Return(move_to_end_of_line(e), "Normal")
      [] key = "0" -> Return(move_to_start_of_line(e), "Normal")
      [] key = "e" -> Return(forward_to_end_of_next_word(e), "Normal")
      [] key = "w" -> Return(forward_to_start_of_next_word(e), "Normal")
      [] key = "b" -> Return(backward_to_start_of_next_word(e), "Normal")
      [] key = "Ctrl-r" -> Return(redo(e, forward(e.action_stack)), "Normal")
      [] key = "u" -> Return(undo(e, backward(e.action_stack)), "Normal")
      [] key = "a" ->
           Return(push_action(inc_x(change_mode_immediately(e, "Insert")), "Insert"),
                  "Insert")
      [] key = "Backspace" -> Return(backward_to_next_char(e), "Normal")
      [] key = "x" -> Return(normal_x(e), "Normal")
      [] key = "s" -> Return(push_action(delete_cur_char(e), "Insert"), "Insert")
      [] key = "S" ->
           Return(push_action(new_line_ahead(delete_cur_line(e)), "Insert"), "Insert")
      [] key = " " -> Return(forward_to_next_char(e), "Normal")
      [] key = "o" -> Return(push_action(new_line_behind(e), "Insert"), "Insert")
      [] key = "O" -> Return(push_action(new_line_ahead(e), "Insert"), "Insert")
      [] key = "i" -> Return(push_action(e, "Insert"), "Insert")
      [] key = ":" -> Return(e, "Command")
      [] key = "v" ->
           Return(set_visual_mode(e, CharacterView(
                      Coordinates(e.cur_pos.x - 1, e.cur_line - 1),
                      Coordinates(e.cur_pos.x - 1, e.cur_line - 1))), "Visual")
      [] key = "V" ->
           Return(set_visual_mode(e, LineView(e.cur_line - 1, e.cur_line - 1)),
                  "Visual")
      [] OTHER -> Return(e, "Normal")

\* if pre_handle_normal(..) { return Mode::Normal } match key { .. }
after_pre_handle(e, key) ==
    IF Stopped(e) THEN e
    ELSE IF e.ok THEN Return(e, "Normal")
    ELSE normal_key(e, key)

handle_normal(e, key) ==
    IF Stopped(e) THEN e
    ELSE after_pre_handle(IF ~e.processing_task THEN pre_handle_normal(e, key)
                          ELSE SetOk(e, FALSE),
                          key)

\* Mode::handle; Exit is unreachable!().
handle(e, key) ==
    CASE e.mode = "Normal" -> handle_normal(e, key)
      [] e.mode = "Visual" -> handle_visual(e, key)
      [] e.mode = "Insert" -> handle_insert(e, key)
      [] e.mode = "Command" -> handle_command(e, key)
      [] OTHER -> Fail(e)

\* self.mode = <the mode returned>; if it is Exit the loop breaks before flush.
store_mode_and_flush(e) ==
    IF Stopped(e) THEN e
    ELSE IF e.next = "Exit" THEN [e EXCEPT !.mode = "Exit"]
    ELSE flush([e EXCEPT !.mode = e.next])

\* One turn of the loop of TextEditor::run.
run_key(e, key) == store_mode_and_flush(handle(e, key))

\* ------------------------------------------------------------------- state

VARIABLES text, cur_pos, saved_pos, cur_line, view, select_view, mode, task,
          action_stack, processing_action, processing_task, repeating_action,
          bar_text, checked, failed, hung, hist, probe

prog == <<text, cur_pos, saved_pos, cur_line, view, select_view, mode, task,
          action_stack, processing_action, processing_task, repeating_action,
          bar_text, checked, failed, hung>>

vars == <<prog, hist, probe>>

\* The editor as the handlers see it.
Ed ==
    [text |-> text, cur_pos |-> cur_pos, saved_pos |-> saved_pos,
     cur_line |-> cur_line, view |-> view, select_view |-> select_view,
     mode |-> mode, task |-> task, action_stack |-> action_stack,
     processing_action |-> processing_action,
     processing_task |-> processing_task,
     repeating_action |-> repeating_action, bar_text |-> bar_text,
     checked |-> checked, failed |-> failed, hung |-> hung,
     ok |-> FALSE, ret |-> None, str |-> <<>>, next |-> mode]

\* The editor becomes e.
Load(e) ==
    /\ text' = e.text
    /\ cur_pos' = e.cur_pos
    /\ saved_pos' = e.saved_pos
    /\ cur_line' = e.cur_line
    /\ view' = e.view
    /\ select_view' = e.select_view
    /\ mode' = e.mode
    /\ task' = e.task
    /\ action_stack' = e.action_stack
    /\ processing_action' = e.processing_action
    /\ processing_task' = e.processing_task
    /\ repeating_action' = e.repeating_action
    /\ bar_text' = e.bar_text
    /\ checked' = e.checked
    /\ failed' = e.failed
    /\ hung' = e.hung

\* hist lists the keys read so far, each with the state it was read in.
Remember(h, key) ==
    Append(h, [key |-> key, mode |-> mode, text |-> text, cur_pos |-> cur_pos,
               cur_line |-> cur_line, view |-> view, action_stack |-> action_stack,
               select_view |-> select_view, task |-> task,
               saved_pos |-> saved_pos, processing_action |-> processing_action,
               processing_task |-> processing_task,
               repeating_action |-> repeating_action, bar_text |-> bar_text])

nkeys == Len(hist)

\* probe holds the arguments and the result of a function of Text or of the
\* selection that is called on its own; the editor loop leaves it alone.
NoProbe == [op |-> "none"]

\* TextEditor::new on a file holding `lines`, followed by the first flush of run.
InitEditor(lines) ==
    /\ text = lines
    /\ cur_pos = Coordinates(1, 1)
    /\ saved_pos = NoPos
    /\ cur_line = 1
    /\ view = [lower_line |-> 0, upper_line |-> Min(Len(lines), TermHeight - 1)]
    /\ select_view = NoView
    /\ mode = "Normal"
    /\ task = <<>>
    /\ action_stack = EmptyStack
    /\ processing_action = FALSE
    /\ processing_task = FALSE
    /\ repeating_action = FALSE
    /\ bar_text = <<>>
    /\ checked \in BOOLEAN
    /\ failed = FALSE
    /\ hung = FALSE
    /\ hist = <<>>

\* The loop of run goes on reading keys after the mode became Exit.
Reads_after_exit(m, limit) ==
    /\ mode = m \/ mode = "Exit"
    /\ ~failed
    /\ ~hung
    /\ nkeys < limit

\* The for loop of run is about to hand a key to the handler of mode m: it has
\* not broken on Exit, the program has neither panicked nor is it caught in a
\* loop, and fewer than `limit` keys were read.
Reads(m, limit) ==
    /\ mode # "Exit"
    /\ mode = m
    /\ ~failed
    /\ ~hung
    /\ nkeys < limit

\* The count typed so far stays within MaxCount.
WithinCount(key) ==
    (mode = "Normal" /\ key \in Digits) => ParseNum(Append(task, key), 0) <= MaxCount

\* One turn of the loop on `key`.
Press(key) ==
    /\ WithinCount(key)
    /\ Load(run_key(Ed, key))
    /\ hist' = Remember(hist, key)
    /\ UNCHANGED probe

NormalKey(keys, limit) == \E key \in keys : Reads("Normal", limit) /\ Press(key)

VisualKey(keys, limit) == \E key \in keys : Reads("Visual", limit) /\ Press(key)

InsertKey(keys, limit) == \E key \in keys : Reads("Insert", limit) /\ Press(key)

CommandKey(keys, limit) == \E key \in keys : Reads("Command", limit) /\ Press(key)

Doc1 == << <<"a", "b">> >>

Doc3 == << <<"a", " ", "b">>, <<>>, <<"c", "d">> >>

Doc5 == << <<"a">>, <<"b">>, <<"c">>, <<"d">>, <<"e">> >>

Docs == {Doc1, Doc3, Doc5}

Keys == {"l", "j", "2", "d", "v", "i", "x", "u", ":", "a", "Esc", "Backspace",
         "Ctrl-q", "Ctrl-r"}

Init == \E lines \in Docs : InitEditor(lines) /\ probe = NoProbe

Next ==
    \/ NormalKey(Keys, MaxKeys)
    \/ VisualKey(Keys, MaxKeys)
    \/ InsertKey(Keys, MaxKeys)
    \/ CommandKey(Keys, MaxKeys)

Spec == Init /\ [][Next]_vars

\* Typing at the end of a line, undone and redone.
RedoKeys == {"a", "l", "j", "Esc", "u", "Ctrl-r"}

RedoLimit == 6

NextRedo == NormalKey(RedoKeys, RedoLimit) \/ InsertKey(RedoKeys, RedoLimit)

SpecRedo == Init /\ [][NextRedo]_vars

\* Insert sessions with tab, newline and Backspace, undone.
SessionKeys == {"i", "l", "c", "\t", "\n", "Backspace", "Esc", "u"}

SessionLimit == 5

NextSession == NormalKey(SessionKeys, SessionLimit) \/ InsertKey(SessionKeys, SessionLimit)

SpecSession == Init /\ [][NextSession]_vars

\* Deletions by x and by Visual d, undone.
DeleteKeys == {"l", "j", "v", "d", "x", "u"}

DeleteLimit == 5

NextDelete == NormalKey(DeleteKeys, DeleteLimit) \/ VisualKey(DeleteKeys, DeleteLimit)

SpecDelete == Init /\ [][NextDelete]_vars

\* Typing below the first screenful: moving down past the last screen row
\* scrolls the viewport before text is inserted.
ScrollKeys == {"j", "l", "i", "\n"}

ScrollLimit == 5

NextScroll == NormalKey(ScrollKeys, ScrollLimit) \/ InsertKey(ScrollKeys, ScrollLimit)

SpecScroll == Init /\ [][NextScroll]_vars

\* Counted and uncounted movement.
CountKeys == {"2", "3", "0", "j", "k", "l", "h", "w", "b", "e", " "}

CountLimit == 4

NextCount == NormalKey(CountKeys, CountLimit)

SpecCount == Init /\ [][NextCount]_vars

\* The key 0 as a movement and as a digit of a count.
ZeroKeys == {"0", "1", "l", "j", "w", "d"}

ZeroLimit == 4

NextZero == NormalKey(ZeroKeys, ZeroLimit)

SpecZero == Init /\ [][NextZero]_vars

\* The keys of Normal mode that start an insert session.
EnterKeys == {"i", "a", "A", "I", "o", "O", "s", "S"}

EnterOtherKeys == {"l", "j", "d", "Esc"}

EnterLimit == 3

NextEnter ==
    \/ NormalKey(EnterKeys \cup EnterOtherKeys, EnterLimit)
    \/ InsertKey(EnterKeys \cup EnterOtherKeys, EnterLimit)

SpecEnter == Init /\ [][NextEnter]_vars

\* The command line: entering Command mode, typing q or w, confirming, Esc.
CommandKeys == {":", "q", "w", "\n", "Esc", "l"}

CommandLimit == 4

NextCommand ==
    NormalKey(CommandKeys, CommandLimit) \/ CommandKey(CommandKeys, CommandLimit)

SpecCommand == Init /\ [][NextCommand]_vars

\* Moving up and down, and deleting lines.
VerticalKeys == {"j", "k", "d"}

VerticalLimit == 5

NextVertical == NormalKey(VerticalKeys, VerticalLimit)

SpecVertical == Init /\ [][NextVertical]_vars

\* Motions at the edges of the document and a key with no binding (z), on
\* documents that grow by o.
BoundaryKeys == {"h", "l", "j", "k", "z", "o", "Esc"}

BoundaryLimit == 5

NextBoundary ==
    NormalKey(BoundaryKeys, BoundaryLimit) \/ InsertKey(BoundaryKeys, BoundaryLimit)

SpecBoundary == Init /\ [][NextBoundary]_vars

\* Word motions, bare and counted, on files with words of one and two
\* characters in the middle and at the start of a line, an empty line, and a
\* blank at the end of the last line.
WordDoc1 == << <<"a", "b", " ", "c">> >>

WordDoc2 == << <<"a", " ">> >>

WordDoc3 == << <<"a", "b">>, <<>>, <<"c">> >>

WordDoc4 == << <<"a">>, <<"b", " ", "c", "d">> >>

WordDoc5 == << <<"a">>, <<"b", "c", " ", "d">> >>

WordDocs == {WordDoc1, WordDoc2, WordDoc3, WordDoc4, WordDoc5}

WordKeys == {"w", "e", "b", "l", "j", "2"}

WordLimit == 4

InitWord == \E lines \in WordDocs : InitEditor(lines) /\ probe = NoProbe

NextWord == NormalKey(WordKeys, WordLimit)

SpecWord == InitWord /\ [][NextWord]_vars

\* Scrolling, and lines added and removed around it.
ViewKeys == {"j", "k", "o", "d", "v", "\n", "Backspace", "Esc"}

ViewLimit == 5

NextView ==
    \/ NormalKey(ViewKeys, ViewLimit)
    \/ VisualKey(ViewKeys, ViewLimit)
    \/ InsertKey(ViewKeys, ViewLimit)

SpecView == Init /\ [][NextView]_vars

\* Entering and leaving Visual mode, character-wise and line-wise.
VisualKeys == {"v", "V", "l", "j", "c", "d", "i", ":", "Esc"}

VisualLimit == 4

NextVisual ==
    \/ NormalKey(VisualKeys, VisualLimit)
    \/ VisualKey(VisualKeys, VisualLimit)
    \/ InsertKey(VisualKeys, VisualLimit)
    \/ CommandKey(VisualKeys, VisualLimit)

SpecVisual == Init /\ [][NextVisual]_vars

\* ------------------------------------------- Text::delete_range on its own

\* Buffers of up to MaxLines lines, each empty, "a" or "bc".
MaxLines == 4

RangeLines == {<<>>, <<"a">>, <<"b", "c">>}

RangeTexts == UNION {[1..n -> RangeLines] : n \in 1..MaxLines}

\* The positions of the characters of `lines` and column 0 of its empty lines,
\* as Text takes them: x the line, y the column.
Positions(lines) ==
    {Coordinates(x, y) : x \in 0..(Len(lines) - 1), y \in 0..1}
        \cap {c \in [x : 0..MaxLines, y : 0..1] : c.y < Max(1, Len(lines[c.x + 1]))}

\* a is not after b (x the line, y the column).
Precedes(a, b) == a.x < b.x \/ (a.x = b.x /\ a.y <= b.y)

\* What the editor holds besides the buffer and the panic flag.
beside_text == <<cur_pos, saved_pos, cur_line, view, select_view, mode, task,
                 action_stack, processing_action, processing_task,
                 repeating_action, bar_text, checked, hung, hist>>

InitRange ==
    \E lines \in RangeTexts : \E start \in Positions(lines), end \in Positions(lines) :
        /\ Precedes(start, end)
        /\ InitEditor(lines)
        /\ probe = [op |-> "input", start |-> start, end |-> end]

\* The buffer becomes r.lines, the call having returned r.ret or panicked.
Returned(op, r) ==
    /\ text' = r.lines
    /\ failed' = r.panic
    /\ probe' = [op |-> op, start |-> probe.start, end |-> probe.end,
                 before |-> text, deleted |-> r.ret]
    /\ UNCHANGED beside_text

\* text.delete_range(start, end)
DeleteRange ==
    /\ probe.op = "input"
    /\ Returned("delete_range", delete_range(text, probe.start, probe.end))

\* s put back into lines from line x, column y on, character by character
\* through insert_at, a newline through new_line_at.
RECURSIVE reinsert(_, _, _, _, _)
reinsert(lines, x, y, s, i) ==
    IF i > Len(s) THEN TextResult(lines, s, FALSE)
    ELSE IF Len(lines) = 0 THEN TextResult(lines, s, TRUE)
    ELSE IF s[i] = "\n"
    THEN reinsert(new_line_at(lines, x, y).lines, x + 1, 0, s, i + 1)
    ELSE reinsert(insert_at(lines, x, y, s[i]).lines, x, y + 1, s, i + 1)

\* The deleted text is inserted again at start.
Reinsert ==
    /\ probe.op = "delete_range"
    /\ ~failed
    /\ text' = reinsert(text, probe.start.x, probe.start.y, probe.deleted, 1).lines
    /\ failed' = reinsert(text, probe.start.x, probe.start.y, probe.deleted, 1).panic
    /\ probe' = [probe EXCEPT !.op = "reinserted"]
    /\ UNCHANGED beside_text

NextRange == DeleteRange \/ Reinsert

SpecRange == InitRange /\ [][NextRange]_vars

\* ------------------------------------- is_select_start / is_select_end alone

\* Cells (column x, line y) of a MaxCell + 1 by MaxCell + 1 corner of the screen.
MaxCell == 2

Cells == {Coordinates(x, y) : x \in 0..MaxCell, y \in 0..MaxCell}

InitSelect ==
    \E a \in Cells, b \in Cells :
        /\ InitEditor(Doc3)
        /\ probe = [op |-> "input", view |-> CharacterView(a, b)]

\* The editor with selection sv.
Selecting(sv) == [Ed EXCEPT !.select_view = sv]

\* is_select_start(col, line) and is_select_end(col, line) asked of the
\* selection of probe and of the same selection made the other way round.
IsSelect ==
    \E cell \in Cells :
        /\ probe.op = "input"
        /\ probe' = [op |-> "is_select", view |-> probe.view, cell |-> cell,
                     is_start |-> is_select_start(Selecting(probe.view), cell.x, cell.y),
                     is_end |-> is_select_end(Selecting(probe.view), cell.x, cell.y),
                     rev_start |-> is_select_start(
                         Selecting(CharacterView(probe.view.end, probe.view.start)),
                         cell.x, cell.y),
                     rev_end |-> is_select_end(
                         Selecting(CharacterView(probe.view.end, probe.view.start)),
                         cell.x, cell.y)]
        /\ UNCHANGED <<text, failed, beside_text>>

NextSelect == IsSelect

SpecSelect == InitSelect /\ [][NextSelect]_vars

\* ------------------------------------------- the positional calls of Text alone

\* Buffers of one or two lines, each empty, of one or of two characters.
TextLines == {<<>>, <<"a">>, <<"b", "c">>}

TextBuffers == {<<l>> : l \in TextLines} \cup {<<l, m>> : l \in TextLines, m \in TextLines}

\* Line indexes and columns run to MaxIndex, past every line and column of
\* the buffers.
MaxIndex == 3

TextCalls == {"insert_at", "delete_at", "append_str_at", "new_line_at",
              "delete_line_at", "len_of_line_at"}

\* The call of Text named `call` with line index x and column y; a character
\* inserted is z, a string appended is zz.
text_call(lines, call, x, y, chk) ==
    CASE call = "insert_at" -> insert_at(lines, x, y, "z")
      [] call = "delete_at" -> delete_at(lines, x, y, chk)
      [] call = "append_str_at" -> append_str_at(lines, x, y, <<"z", "z">>)
      [] call = "new_line_at" -> new_line_at(lines, x, y)
      [] call = "delete_line_at" -> Text_delete_line_at(lines, x)
      [] call = "len_of_line_at" ->
             TextResult(lines, Text_len_of_line_at(lines, x),
                        Text_len_of_line_at_panics(lines))

InitText == \E lines \in TextBuffers : InitEditor(lines) /\ probe = [op |-> "input"]

\* One call on the buffer, with any line index and column up to MaxIndex.
TextCall ==
    \E call \in TextCalls, x \in 0..MaxIndex, y \in 0..MaxIndex :
        /\ probe.op = "input"
        /\ text' = text_call(text, call, x, y, checked).lines
        /\ failed' = text_call(text, call, x, y, checked).panic
        /\ probe' = [op |-> "text", call |-> call, x |-> x, y |-> y, before |-> text,
                     returned |-> text_call(text, call, x, y, checked).ret]
        /\ UNCHANGED beside_text

NextText == TextCall

SpecText == InitText /\ [][NextText]_vars

\* ------------------------------------ the selection operations on a BlockView

\* The corners a block selection is made of.
BlockCells == {Coordinates(0, 0), Coordinates(1, 1)}

BlockCalls == {"sort_select_view", "is_select_start", "is_select_end",
               "update_visual_pos", "delete_selected"}

\* The editor after `call` on editor e; is_select_start and is_select_end
\* begin by sorting the selection.
block_call(e, call) ==
    CASE call = "update_visual_pos" -> update_visual_pos(e)
      [] call = "delete_selected" -> delete_selected(e)
      [] OTHER -> IF sort_select_view_panics(e.select_view) THEN Fail(e) ELSE e

\* What the call made of the editor it was given.
BlockOutcome(call, given, after) ==
    [op |-> "block", call |-> call, view |-> given.select_view,
     panicked |-> after.failed, before |-> given.text, after |-> after.text,
     kind |-> after.select_view.kind]

\* The editor in Visual mode with selection sv.
SelectingVisual(sv) == [Ed EXCEPT !.select_view = sv, !.mode = "Visual"]

\* One of the selection operations is called with a BlockView as selection.
BlockOp ==
    \E call \in BlockCalls, a \in BlockCells, b \in BlockCells :
        /\ ~failed
        /\ ~hung
        /\ probe' = BlockOutcome(call, SelectingVisual(BlockView(a, b)),
                                 block_call(SelectingVisual(BlockView(a, b)), call))
        /\ UNCHANGED <<prog, hist>>

BlockKeys == {"v", "V", "l", "j", "d", "Esc"}

BlockLimit == 3

NextBlock ==
    \/ NormalKey(BlockKeys, BlockLimit)
    \/ VisualKey(BlockKeys, BlockLimit)
    \/ BlockOp

SpecBlock == Init /\ [][NextBlock]_vars

\* ------------------------------------------------------------- properties

\* The last key read, with the state it was read in.
Last == hist[nkeys]

\* The i-th key read was `key`, read in mode m.
KeyAt(i, key, m) == i >= 1 /\ i <= nkeys /\ hist[i].key = key /\ hist[i].mode = m

\* C1: Exit is absorbing: once the mode is Exit no key is handled any more, so
\* nothing of the editor (mode, buffer, cursor, viewport, selection,
\* accumulator, action log) changes again.
C1_ExitAbsorbing == [][mode = "Exit" => UNCHANGED prog]_vars

\* The loop has broken on Exit with keys still to come.
C1_Witness == mode = "Exit" /\ nkeys >= 1 /\ nkeys < MaxKeys

\* C2: in every reachable state whose mode is Normal, Visual, Insert or
\* Command, whatever the accumulator, selection or action log, Ctrl-q makes the
\* next mode Exit.
C2_CtrlQExits == (nkeys >= 1 /\ Last.key = "Ctrl-q") => mode = "Exit"

\* Ctrl-q was read in Visual mode with a count pending, a selection and a
\* non-empty action log.
C2_Witness ==
    /\ KeyAt(nkeys, "Ctrl-q", "Visual")
    /\ mode = "Exit"
    /\ task # <<>>
    /\ select_view # NoView
    /\ action_stack.backward_stack # <<>>

\* C3: after any sequence of keys the buffer contains at least one line.
C3_AtLeastOneLine == Len(text) >= 1

\* u was read with the backward stack empty, or Ctrl-r with the forward stack
\* empty.
NothingToMove ==
    \/ KeyAt(nkeys, "u", "Normal") /\ Last.action_stack.backward_stack = <<>>
    \/ KeyAt(nkeys, "Ctrl-r", "Normal") /\ Last.action_stack.forward_stack = <<>>

\* C7: u on an empty backward stack and Ctrl-r on an empty forward stack are
\* no-ops: buffer, cursor, viewport, mode and both stacks are unchanged and
\* nothing fails.
C7_EmptyUndoRedoNoOp ==
    NothingToMove =>
        /\ text = Last.text
        /\ cur_pos = Last.cur_pos
        /\ cur_line = Last.cur_line
        /\ view = Last.view
        /\ mode = "Normal"
        /\ action_stack = Last.action_stack
        /\ ~failed
        /\ ~hung

\* Ctrl-r was read after an edit that was never undone.
C7_Witness ==
    /\ KeyAt(nkeys, "Ctrl-r", "Normal")
    /\ Last.action_stack.forward_stack = <<>>
    /\ Last.action_stack.backward_stack # <<>>
    /\ text # hist[1].text

\* The last key was not an undo or a redo, and it pushed onto the backward
\* stack.
FreshPush ==
    /\ nkeys >= 1
    /\ ~KeyAt(nkeys, "u", "Normal")
    /\ ~KeyAt(nkeys, "Ctrl-r", "Normal")
    /\ Len(action_stack.backward_stack) > Len(Last.action_stack.backward_stack)

\* C8: immediately after a fresh edit pushes an entry onto the backward stack,
\* the forward stack is empty.
C8_FreshPushClearsForward == FreshPush => action_stack.forward_stack = <<>>

\* The action log after its top backward entry moved to the forward stack, and
\* the reverse.
MovedBack(s) ==
    [backward_stack |-> Pop(s.backward_stack),
     forward_stack |-> Append(s.forward_stack, Top(s.backward_stack))]

MovedForward(s) ==
    [backward_stack |-> Append(s.backward_stack, Top(s.forward_stack)),
     forward_stack |-> Pop(s.forward_stack)]

\* C9: handling u (resp. Ctrl-r) changes the action log only by moving the
\* single top entry from backward to forward (resp. forward to backward).
C9_ReplayRecordsNothing ==
    /\ (KeyAt(nkeys, "u", "Normal") /\ Last.action_stack.backward_stack # <<>> /\ ~failed)
           => action_stack = MovedBack(Last.action_stack)
    /\ (KeyAt(nkeys, "Ctrl-r", "Normal") /\ Last.action_stack.forward_stack # <<>> /\ ~failed)
           => action_stack = MovedForward(Last.action_stack)

\* The i-th key committed an action: Esc ending an insert session, a
\* Normal-mode x, or a Visual-mode d.
Committed(i) ==
    KeyAt(i, "Esc", "Insert") \/ KeyAt(i, "x", "Normal") \/ KeyAt(i, "d", "Visual")

\* C4: after a committed action, u and then Ctrl-r yield exactly the buffer
\* that existed just after the action was committed.
C4_UndoRedoRoundTrip ==
    (/\ Committed(nkeys - 2)
     /\ KeyAt(nkeys - 1, "u", "Normal")
     /\ KeyAt(nkeys, "Ctrl-r", "Normal"))
        => text = hist[nkeys - 1].text

\* Keys i..j are an insert session: i, a, A or I read in Normal mode, then
\* character keys and Backspaces in Insert mode, then Esc.
InsertSession(i, j) ==
    /\ i >= 1 /\ i < j /\ j <= nkeys
    /\ hist[i].mode = "Normal"
    /\ hist[i].key \in {"i", "a", "A", "I"}
    /\ \A k \in (i + 1)..(j - 1) :
           hist[k].mode = "Insert" /\ (IsChar(hist[k].key) \/ hist[k].key = "Backspace")
    /\ KeyAt(j, "Esc", "Insert")

\* C5: after an insert session of any mix of character keys and Backspace,
\* ended by Esc, u restores the buffer to its content before the session.
C5_UndoRestoresBeforeSession ==
    \A i \in 1..nkeys :
        (InsertSession(i, nkeys - 1) /\ KeyAt(nkeys, "u", "Normal"))
            => text = hist[i].text

\* The i-th key was a Normal-mode x or a Visual-mode d, and it removed text:
\* it pushed a Delete action holding the removed characters.
Removed(i) ==
    /\ KeyAt(i, "x", "Normal") \/ KeyAt(i, "d", "Visual")
    /\ i < nkeys
    /\ Len(hist[i + 1].action_stack.backward_stack)
           > Len(hist[i].action_stack.backward_stack)
    /\ Top(hist[i + 1].action_stack.backward_stack).action = "Delete"
    /\ Top(hist[i + 1].action_stack.backward_stack).contents # <<>>

\* C6: after an x or a Visual d that removed text, u restores the buffer to
\* its content before the deletion.
C6_UndoRestoresDeleted ==
    (Removed(nkeys - 1) /\ KeyAt(nkeys, "u", "Normal")) => text = hist[nkeys - 1].text

\* Keys i..nkeys are n character keys followed by n Backspaces, all read in
\* Insert mode.
TypedThenErased(i, n) ==
    /\ i >= 1 /\ n >= 1 /\ i + 2 * n - 1 = nkeys
    /\ \A k \in i..(i + n - 1) : hist[k].mode = "Insert" /\ IsChar(hist[k].key)
    /\ \A k \in (i + n)..nkeys : KeyAt(k, "Backspace", "Insert")

\* C10: in Insert mode, n characters followed by n Backspaces return the
\* buffer to its content before the sequence.
C10_BackspaceInvertsInsert ==
    \A i \in 1..nkeys, n \in 1..nkeys : TypedThenErased(i, n) => text = hist[i].text

\* Buffer t with its lines n - 1 and n (n >= 2) joined into one line.
JoinedWithPrevious(t, n) ==
    SubSeq(t, 1, n - 2) \o << t[n - 1] \o t[n] >> \o SubSeq(t, n + 1, Len(t))

\* The last key was a Backspace read in Insert mode with the cursor at
\* column 1 of an existing document line.
BackspaceAtLineStart ==
    /\ KeyAt(nkeys, "Backspace", "Insert")
    /\ Last.cur_pos.x = 1
    /\ Last.cur_line <= Len(Last.text)

\* C11: an Insert-mode Backspace at column 1 of a line other than the first
\* joins that line onto the previous one: one line fewer, the previous line
\* becomes its old text followed by the current line's text, no character is
\* lost; on the first line it leaves the buffer unchanged.
C11_BackspaceJoinsLines ==
    BackspaceAtLineStart =>
        IF Last.cur_line > 1
        THEN text = JoinedWithPrevious(Last.text, Last.cur_line)
        ELSE text = Last.text

\* Buffer t with its line n split in two after the first col characters.
SplitAt(t, n, col) ==
    SubSeq(t, 1, n - 1)
        \o << SubSeq(t[n], 1, col), SubSeq(t[n], col + 1, Len(t[n])) >>
        \o SubSeq(t, n + 1, Len(t))

\* C12: a newline typed in Insert mode splits the document line the cursor is
\* on (cur_line) at the cursor column: its tail becomes a new line right after
\* it and every other line is unchanged, whatever the viewport's scroll offset.
C12_NewlineSplitsCurrentLine ==
    (KeyAt(nkeys, "\n", "Insert") /\ Last.cur_line <= Len(Last.text)) =>
        text = SplitAt(Last.text, Last.cur_line,
                       Min(Last.cur_pos.x - 1, Len(Last.text[Last.cur_line])))

\* Position a comes before position b in the document, or is b.
NotAfter(a, b) == a.y < b.y \/ (a.y = b.y /\ a.x <= b.x)

\* What a deletion from position a to position b inclusive (0-based column x
\* on 0-based line y, a not after b) leaves of the two lines it touches: the
\* part of a's line before a followed by the part of b's line after b.
SpanRemainder(t, a, b) ==
    SubSeq(t[a.y + 1], 1, a.x) \o SubSeq(t[b.y + 1], b.x + 2, Len(t[b.y + 1]))

\* Buffer t without the characters from a to b inclusive.
WithoutSpan(t, a, b) ==
    SubSeq(t, 1, a.y) \o << SpanRemainder(t, a, b) >> \o SubSeq(t, b.y + 2, Len(t))

\* The cursor of the state before the last key, as a 0-based position.
CursorBefore == Coordinates(Last.cur_pos.x - 1, Last.cur_line - 1)

\* The earlier and the later of the anchor and the cursor before the last key.
SpanStart ==
    IF NotAfter(Last.select_view.start, CursorBefore)
    THEN Last.select_view.start ELSE CursorBefore

SpanEnd ==
    IF NotAfter(Last.select_view.start, CursorBefore)
    THEN CursorBefore ELSE Last.select_view.start

\* The last key was a d read in Visual mode on a character-wise selection.
CharacterwiseDelete ==
    KeyAt(nkeys, "d", "Visual") /\ Last.select_view.kind = "CharacterView"

\* C13: a character-wise Visual d removes exactly the characters between the
\* anchor and the cursor, both included, and leaves the unselected characters
\* in order, merged into the remaining lines. Stated for the selections that
\* leave something of the lines they touch: a selection that leaves nothing of
\* them takes the line away as well, which Text::delete_range does by design.
C13_VisualDeleteExactSpan ==
    (CharacterwiseDelete /\ SpanRemainder(Last.text, SpanStart, SpanEnd) # <<>>) =>
        text = WithoutSpan(Last.text, SpanStart, SpanEnd)

\* The character at position c of buffer t exists.
OnCharacter(t, c) == c.x < Len(t) /\ c.y < Len(t[c.x + 1])

\* What delete_range(start, end) leaves of the lines of t it touches.
RangeRemainder(t, start, end) ==
    Slice(t[start.x + 1], 0, start.y)
        \o Slice(t[end.x + 1], end.y + 1, Len(t[end.x + 1]))

\* C14: delete_range(start, end), start not after end and both on characters,
\* followed by inserting the returned text again at start, character by
\* character with a newline splitting the line, gives back the original buffer,
\* for spans within a line and for spans over several lines with any number of
\* lines in between. Stated for the spans that leave something of the lines
\* they touch, so that the line holding start is still there to insert into.
C14_DeleteRangeRoundTrip ==
    (/\ probe.op = "reinserted"
     /\ OnCharacter(probe.before, probe.start)
     /\ OnCharacter(probe.before, probe.end)
     /\ RangeRemainder(probe.before, probe.start, probe.end) # <<>>) =>
        (~failed /\ text = probe.before)

\* C15: whether a cell belongs to a character-wise selection does not depend
\* on the order of its two ends: is_select_start and is_select_end answer the
\* same for the selection from A to B and for the one from B to A, at every
\* cell; and both ends belong to the selection.
C15_SelectionOrderIndependent ==
    probe.op = "is_select" =>
        /\ probe.is_start = probe.rev_start
        /\ probe.is_end = probe.rev_end
        /\ probe.cell \in {probe.view.start, probe.view.end} => probe.is_start

\* The anchor of a selection made backwards (its end before its start) was
\* asked about and belongs to the selection.
C15_Witness ==
    /\ probe.op = "is_select"
    /\ probe.view.start # probe.view.end
    /\ NotAfter(probe.view.end, probe.view.start)
    /\ probe.cell = probe.view.start
    /\ probe.is_start

\* C16: a selection exists exactly while the editor is in Visual mode: after
\* every key it is a CharacterView or a LineView if the mode is Visual and
\* None if the mode is Normal, Insert or Command.
C16_SelectionIffVisual ==
    /\ mode = "Visual" => select_view.kind \in {"CharacterView", "LineView"}
    /\ mode \in {"Normal", "Insert", "Command"} => select_view = NoView

\* Visual mode was left for Insert mode by c, and the selection is gone.
C16_Witness ==
    /\ KeyAt(nkeys, "c", "Visual")
    /\ Last.select_view.kind = "LineView"
    /\ mode = "Insert"
    /\ select_view = NoView

\* The editor as it was when the key recorded in h was read.
EdAt(h) ==
    [text |-> h.text, cur_pos |-> h.cur_pos, saved_pos |-> h.saved_pos,
     cur_line |-> h.cur_line, view |-> h.view, select_view |-> h.select_view,
     mode |-> h.mode, task |-> h.task, action_stack |-> h.action_stack,
     processing_action |-> h.processing_action,
     processing_task |-> h.processing_task,
     repeating_action |-> h.repeating_action, bar_text |-> h.bar_text,
     checked |-> checked, failed |-> FALSE, hung |-> FALSE,
     ok |-> FALSE, ret |-> None, str |-> <<>>, next |-> h.mode]

\* The key pressed n times: n turns of the loop of run.
RECURSIVE press_times(_, _, _)
press_times(e, key, n) ==
    IF n = 0 THEN e ELSE press_times(run_key(e, key), key, n - 1)

\* Keys i .. nkeys are a count typed on an empty accumulator and then a
\* movement key, all read in Normal mode.
CountedMovement(i) ==
    /\ i >= 1 /\ i < nkeys
    /\ hist[i].task = <<>>
    /\ \A k \in i..(nkeys - 1) : hist[k].mode = "Normal" /\ hist[k].key \in Digits
    /\ Last.task = [k \in 1..(nkeys - i) |-> hist[i + k - 1].key]
    /\ Last.mode = "Normal"
    /\ Last.key \in MOVEMENT

\* The cursor, the current line, the viewport and the buffer are those of e.
SameEffect(e) ==
    /\ cur_pos = e.cur_pos
    /\ cur_line = e.cur_line
    /\ view = e.view
    /\ text = e.text

\* C17: a count N followed by a movement key has the same effect on the
\* cursor, the current line, the viewport and the buffer as pressing that key
\* N times, and the accumulator is empty afterwards.
C17_CountedEqualsPressed ==
    \A i \in 1..nkeys :
        CountedMovement(i) =>
            /\ SameEffect(press_times(EdAt(hist[i]), Last.key, num(Last.task)))
            /\ task = <<>>

\* The key handled n times by handle_normal, outside any task, with no
\* refresh of the screen in between.
RECURSIVE handle_times(_, _, _)
handle_times(e, key, n) ==
    IF n = 0 THEN e ELSE handle_times(handle_normal(e, key), key, n - 1)

\* C17 (amended): a count N followed by a movement key has the same effect on
\* the cursor, the current line, the viewport and the buffer as handling that
\* key N times in a row and refreshing the screen once afterwards, and the
\* accumulator is empty afterwards.
C17_CountedEqualsHandled ==
    \A i \in 1..nkeys :
        CountedMovement(i) =>
            /\ SameEffect(store_mode_and_flush(
                   handle_times(EdAt(hist[i]), Last.key, num(Last.task))))
            /\ task = <<>>

\* 2 j was typed on the first line of a document of three lines and the
\* cursor is on line 3.
C17_Witness ==
    /\ nkeys = 2
    /\ KeyAt(1, "2", "Normal")
    /\ KeyAt(2, "j", "Normal")
    /\ Len(text) = 3
    /\ cur_line = 3
    /\ task = <<>>

\* Keys i .. nkeys are a (possibly empty) count typed on an empty accumulator
\* and then d d, all read in Normal mode.
CountedDeleteLine(i) ==
    /\ i >= 1 /\ i < nkeys
    /\ hist[i].task = <<>>
    /\ \A k \in i..nkeys : hist[k].mode = "Normal"
    /\ \A k \in i..(nkeys - 2) : hist[k].key \in Digits
    /\ hist[nkeys - 1].key = "d"
    /\ Last.key = "d"
    /\ Last.task = [k \in 1..(nkeys - i) |-> hist[i + k - 1].key]

\* Buffer t without n lines from line `line` on, or without all the lines from
\* there on if they are fewer.
WithoutLines(t, line, n) == SubSeq(t, 1, line - 1) \o SubSeq(t, line + n, Len(t))

\* The count of d d: the number typed before it, 1 if there is none.
LinesCounted(tasks) == IF has_num(tasks) THEN num(tasks) ELSE 1

\* C18: N d d deletes N lines starting at the current line (all the remaining
\* lines if fewer remain), a bare d d deletes exactly the current line, and
\* the accumulator is empty afterwards.
C18_CountedDeleteLine ==
    \A i \in 1..nkeys :
        CountedDeleteLine(i) =>
            /\ text = WithoutLines(hist[i].text, hist[i].cur_line,
                                   LinesCounted(Last.task))
            /\ task = <<>>

\* The cursor, the current line, the viewport and the buffer are as they were
\* before the last key.
NothingMoved ==
    /\ cur_pos = Last.cur_pos
    /\ cur_line = Last.cur_line
    /\ view = Last.view
    /\ text = Last.text

\* C19: the key 0 with no count in the accumulator moves the cursor to column
\* 1 and leaves the accumulator as it was; with a count in the accumulator it
\* is appended to it and nothing moves; a movement key with no count in the
\* accumulator is handled directly, as a key of Normal mode, and leaves the
\* accumulator as it was.
C19_ZeroAndBareMovement ==
    /\ (KeyAt(nkeys, "0", "Normal") /\ ~has_num(Last.task)) =>
           (cur_pos.x = 1 /\ task = Last.task)
    /\ (KeyAt(nkeys, "0", "Normal") /\ has_num(Last.task)) =>
           (task = Append(Last.task, "0") /\ NothingMoved)
    /\ (nkeys >= 1 /\ Last.mode = "Normal" /\ Last.key \in MOVEMENT
            /\ ~has_num(Last.task)) =>
           /\ task = Last.task
           /\ SameEffect(store_mode_and_flush(normal_key(EdAt(Last), Last.key)))

\* 0 was typed after 1 with the cursor off column 1, and then 0 on its own.
C19_Witness ==
    /\ nkeys = 4
    /\ KeyAt(1, "l", "Normal") /\ KeyAt(2, "1", "Normal")
    /\ KeyAt(3, "0", "Normal") /\ KeyAt(4, "l", "Normal")
    /\ hist[3].cur_pos.x = 2
    /\ hist[4].task = <<"1", "0">>
    /\ hist[4].cur_pos.x = 2

\* tasks is a run of digits, possibly empty, followed by at most one key that
\* is not a digit.
DigitsThenOneKey(tasks) ==
    \A k \in 1..(Len(tasks) - 1) : tasks[k] \in Digits

\* The last key completed a command of the accumulator: a movement key after
\* a count, or the second d of d d.
Consumed ==
    /\ nkeys >= 1
    /\ Last.mode = "Normal"
    /\ \/ Last.key \in MOVEMENT /\ has_num(Last.task)
       \/ Last.key = "d" /\ Last.task # <<>> /\ last_task(Last.task) = "d"

\* C20: after every key the accumulator holds a (possibly empty) run of digits
\* followed by at most one triggering key, and it is empty once it has been
\* consumed into an operation.
C20_DigitsThenOneTrigger ==
    /\ DigitsThenOneKey(task)
    /\ Consumed => task = <<>>

\* C21: the pending task does not outlive Normal mode: whenever the mode is
\* Visual, Insert or Command the accumulator is empty.
C21_TaskEmptyOutsideNormal ==
    mode \in {"Visual", "Insert", "Command"} => task = <<>>

\* The last key was one of i, a, A, I, o, O, s, S read in Normal mode.
StartedInsert == nkeys >= 1 /\ Last.mode = "Normal" /\ Last.key \in EnterKeys

\* One Insert action with no content, anchored at the cursor, was pushed onto
\* the backward stack by the last key.
PushedInsertAtCursor ==
    action_stack.backward_stack =
        Append(Last.action_stack.backward_stack,
               CmdAction("Insert", cur_line, cur_pos, <<>>))

\* C22: in every Normal-mode state each of i, a, A, I, o, O, s and S makes the
\* next mode Insert and pushes exactly one new Insert action with empty
\* content, anchored at the cursor position where typing will start.
C22_InsertKeysPushAction ==
    StartedInsert => (mode = "Insert" /\ PushedInsertAtCursor)

\* C23: Normal-mode x records a Delete action only if a character was
\* removed: when x leaves the buffer as it was, neither stack of the action
\* log changes.
C23_NoRemovalNoAction ==
    (KeyAt(nkeys, "x", "Normal") /\ text = Last.text) =>
        action_stack = Last.action_stack

\* The last three keys were `:` read in Normal mode, then the character c and
\* the confirmation (Enter) read in Command mode.
Confirmed(c) ==
    /\ nkeys >= 3
    /\ KeyAt(nkeys - 2, ":", "Normal")
    /\ KeyAt(nkeys - 1, c, "Command")
    /\ KeyAt(nkeys, "\n", "Command")

\* C24: in Command mode a typed character is collected into the command-line
\* buffer; on confirmation the command q makes the mode Exit and the command w
\* returns to Normal; Esc returns to Normal and executes nothing.
C24_CommandLine ==
    /\ \A c \in {"q", "w"} :
           KeyAt(nkeys, c, "Command") =>
               line_at(bar_text, 0) = Append(line_at(Last.bar_text, 0), c)
    /\ Confirmed("q") => mode = "Exit"
    /\ Confirmed("w") => mode = "Normal"
    /\ KeyAt(nkeys, "Esc", "Command") => (mode = "Normal" /\ text = Last.text)

\* The last key was j or k read in Normal mode: the keys that scroll.
Scrolled == nkeys >= 1 /\ Last.mode = "Normal" /\ Last.key \in {"j", "k"}

\* C25: after any sequence of keys the viewport [lower_line, upper_line) is at
\* most terminal height - 1 lines high, and every scroll changes both of its
\* bounds by the same amount.
C25_ViewportHeight ==
    /\ view.upper_line - view.lower_line <= TermHeight - 1
    /\ Scrolled =>
           view.upper_line - Last.view.upper_line
               = view.lower_line - Last.view.lower_line

\* The last key was `key`, read in Normal mode with no count pending, and it
\* was handled to its end.
Moved(key) ==
    /\ KeyAt(nkeys, key, "Normal")
    /\ ~has_num(Last.task)
    /\ ~failed /\ ~hung

\* The viewport moved by d lines as a whole and the screen row stayed.
ScrolledBy(d) ==
    /\ view.lower_line = Last.view.lower_line + d
    /\ view.upper_line = Last.view.upper_line + d
    /\ cur_pos.y = Last.cur_pos.y

\* The screen row moved by d and the viewport stayed.
RowMovedBy(d) == cur_pos.y = Last.cur_pos.y + d /\ view = Last.view

\* C26: j and k change cur_line by exactly one unless it is already the last
\* or first line of the document, and cur_line stays within 1 .. document
\* length; with the screen row on the bottom or top row of the viewport and
\* lines beyond it the viewport shifts by one and the row stays, otherwise the
\* row moves by one and the viewport stays.
C26_VerticalMotion ==
    /\ Moved("j") =>
          /\ cur_line = IF Last.cur_line = Len(Last.text) THEN Last.cur_line
                        ELSE Last.cur_line + 1
          /\ cur_line >= 1 /\ cur_line <= Len(text)
          /\ Last.cur_line # Len(Last.text) =>
                IF /\ Last.cur_pos.y = Last.view.upper_line - Last.view.lower_line
                   /\ Last.view.upper_line < Len(Last.text)
                THEN ScrolledBy(1)
                ELSE RowMovedBy(1)
    /\ Moved("k") =>
          /\ cur_line = IF Last.cur_line = 1 THEN 1 ELSE Last.cur_line - 1
          /\ cur_line >= 1 /\ cur_line <= Len(text)
          /\ Last.cur_line # 1 =>
                IF Last.cur_pos.y = 1 /\ Last.view.lower_line > 0
                THEN ScrolledBy(-1)
                ELSE RowMovedBy(-1)

\* The last key was read in Normal mode with an empty accumulator and was a
\* motion against the edge it is at, or a key that Normal mode does not bind.
AtBoundary ==
    /\ nkeys >= 1
    /\ Last.mode = "Normal"
    /\ Last.task = <<>>
    /\ \/ Last.key = "h" /\ Last.cur_pos.x = 1
       \/ Last.key = "l" /\ Last.cur_pos.x = Max(1, Len(Last.text[Last.cur_line]))
       \/ Last.key = "k" /\ Last.cur_line = 1
       \/ Last.key = "j" /\ Last.cur_line = Len(Last.text)
       \/ Last.key = "z"

\* C27: in Normal mode with an empty accumulator, h at column 1, l at the last
\* column, k on the first line, j on the last line and any key with no binding
\* leave the mode, the cursor, cur_line, the viewport, the buffer and the
\* action log unchanged and raise no error.
C27_BoundaryNoOp ==
    (AtBoundary /\ Last.cur_line <= Len(Last.text)) =>
        /\ ~failed /\ ~hung
        /\ mode = "Normal"
        /\ NothingMoved
        /\ action_stack = Last.action_stack

\* Position (l1, x1) of the document is not after position (l2, x2).
NotAfterInDocument(l1, x1, l2, x2) == l1 < l2 \/ (l1 = l2 /\ x1 <= x2)

\* The last key was a bare w read in Normal mode.
PressedW == KeyAt(nkeys, "w", "Normal") /\ Last.task = <<>>

\* Before the last key the cursor was on the last column of the last line.
WasAtDocumentEnd ==
    /\ Last.cur_line = Len(Last.text)
    /\ Last.cur_pos.x = Max(1, Len(Last.text[Last.cur_line]))

\* C28: a bare w never takes the cursor to an earlier position of the document
\* (line, then column), and with the cursor at the end of the document w
\* returns having changed nothing.
C28_WordForwardMonotone ==
    PressedW =>
        /\ NotAfterInDocument(Last.cur_line, Last.cur_pos.x, cur_line, cur_pos.x)
        /\ WasAtDocumentEnd => (~failed /\ ~hung /\ NothingMoved)

\* The character under the cursor before the i-th key.
CharBefore(i) == char_at(hist[i].text, hist[i].cur_line - 1, hist[i].cur_pos.x - 1)

\* The column of the first character of the word that holds column x of `line`.
WordStart(line, x) ==
    CHOOSE i \in 1..x :
        /\ \A j \in i..x : is_alphabet(line[j])
        /\ i = 1 \/ ~is_alphabet(line[i - 1])

\* The last two keys were a bare e pressed on an alphanumeric character, which
\* stopped before the end of the document, and then b.
PressedEThenB ==
    /\ nkeys >= 2
    /\ KeyAt(nkeys - 1, "e", "Normal")
    /\ KeyAt(nkeys, "b", "Normal")
    /\ hist[nkeys - 1].task = <<>>
    /\ is_alphabet(CharBefore(nkeys - 1))
    /\ ~WasAtDocumentEnd

\* The cursor is on the first character of the word e left it in.
AtStartOfSameWord ==
    /\ is_alphabet(CharBefore(nkeys))
    /\ cur_line = Last.cur_line
    /\ cur_pos.x = WordStart(Last.text[Last.cur_line], Last.cur_pos.x)

\* C29: from an alphanumeric character, e (when it did not stop at the end of
\* the document) followed by b puts the cursor on the first character of the
\* word in which e left it, whatever the length of that word.
C29_EndThenBackToWordStart == PressedEThenB => (~failed /\ ~hung /\ AtStartOfSameWord)

\* The word in which e left the cursor has two characters or more: the cursor
\* is on its last character, after its first.
LeftOnLongWord == WordStart(Last.text[Last.cur_line], Last.cur_pos.x) < Last.cur_pos.x

\* C29, amended: from an alphanumeric character, e (when it did not stop at
\* the end of the document) followed by b puts the cursor on the first
\* character of the word in which e left it, when that word has two characters
\* or more.
C29_BackToStartOfLongWord ==
    (PressedEThenB /\ LeftOnLongWord) => (~failed /\ ~hung /\ AtStartOfSameWord)

\* e went to the end of a word of two characters at the start of the second
\* line, and b came back to its first character.
C29_Witness ==
    /\ PressedEThenB
    /\ LeftOnLongWord
    /\ Last.cur_line = 2
    /\ cur_line = 2
    /\ cur_pos.x = 1
    /\ ~failed
    /\ ~hung

\* C30: every key is handled to the end before the next one is read: no key,
\* and in particular none of the word motions w, e and b or their counted
\* forms, is caught in a loop that never ends, whatever the document and the
\* position of the cursor.
C30_EveryKeyTerminates == ~hung

ClampedLine(lines, x) == lines[Min(x, Len(lines) - 1) + 1]

\* The last call was delete_at.
CalledDeleteAt == probe.op = "text" /\ probe.call = "delete_at"

\* C32: delete_at(line, col) on an empty line returns nothing and leaves the
\* buffer unchanged for every col, 0 included, without failing on the
\* subtraction col - 1; on a line that is not empty it removes and returns the
\* character just before col, col being clamped to the line's length.
C32_DeleteAt ==
    CalledDeleteAt =>
        /\ ClampedLine(probe.before, probe.x) = <<>> =>
               (~failed /\ probe.returned = None /\ text = probe.before)
        /\ (ClampedLine(probe.before, probe.x) # <<>> /\ probe.y >= 1) =>
               /\ ~failed
               /\ probe.returned =
                      ClampedLine(probe.before, probe.x)[
                          Min(probe.y, Len(ClampedLine(probe.before, probe.x)))]
               /\ ClampedLine(text, probe.x) =
                      RemoveAt(ClampedLine(probe.before, probe.x),
                               Min(probe.y, Len(ClampedLine(probe.before, probe.x))) - 1)
               /\ Len(text) = Len(probe.before)

\* The column of position c is at or past the end of its line of t, as is
\* every column of an empty line.
AtOrPastLineEnd(t, c) == c.y >= Len(t[c.x + 1])

\* C33: delete_range takes coordinates out of range and clamps them: whenever
\* the column of start or of end is at or past the end of its line, any
\* position on an empty line included, delete_range completes without failing.
C33_DeleteRangeClamps ==
    (/\ probe.op = "delete_range"
     /\ \/ AtOrPastLineEnd(probe.before, probe.start)
        \/ AtOrPastLineEnd(probe.before, probe.end)) => ~failed

\* The line index and the column a call with (x, y) on t is clamped to.
ClampedIndex(t, x) == Min(x, Len(t) - 1)

ClampedColumn(t, x, y) == Min(y, Len(ClampedLine(t, x)))

\* The last call had a line index past the last line or a column past the
\* length of its line.
CalledPastRange ==
    /\ probe.op = "text"
    /\ \/ probe.x > Len(probe.before) - 1
       \/ /\ probe.call \notin {"delete_line_at", "len_of_line_at"}
          /\ probe.y > Len(ClampedLine(probe.before, probe.x))

\* The buffer and the returned value are those of the call made with the
\* last valid line and, for the column, the length of the line.
AsIfClamped ==
    /\ text = text_call(probe.before, probe.call,
                        ClampedIndex(probe.before, probe.x),
                        ClampedColumn(probe.before, probe.x, probe.y), checked).lines
    /\ probe.returned =
           text_call(probe.before, probe.call,
                     ClampedIndex(probe.before, probe.x),
                     ClampedColumn(probe.before, probe.x, probe.y), checked).ret

\* C34: on a buffer of at least one line, insert_at, delete_at, append_str_at,
\* new_line_at, delete_line_at and len_of_line_at called with a line index or
\* a column past the valid range never fail and do exactly what they do when
\* called with the last valid line and, for a column, the line's length.
C34_CallsClamp == CalledPastRange => (~failed /\ AsIfClamped)

\* The last key inserted or deleted lines of a document that fitted in the
\* text area, TermHeight - 1 rows, before the key and fits in it after.
LinesChangedWithinScreen ==
    /\ nkeys >= 1
    /\ ~failed
    /\ ~hung
    /\ Len(text) # Len(Last.text)
    /\ Len(Last.text) <= TermHeight - 1
    /\ Len(text) <= TermHeight - 1

\* C35: while the document fits in one screen (at most TermHeight - 1 lines),
\* the viewport covers exactly the document after every key that inserts or
\* deletes lines: lower_line = 0 and upper_line = the number of lines.
C35_ViewportCoversDocument ==
    LinesChangedWithinScreen => (view.lower_line = 0 /\ view.upper_line = Len(text))

\* C36: after every key, in every mode, cur_line is a line of the document,
\* 1 <= cur_line <= the number of lines: no deletion of lines leaves the
\* cursor's line past the end of the buffer. Stated for documents that still
\* hold a line.
C36_CursorLineInDocument ==
    (~failed /\ ~hung /\ Len(text) >= 1) => (1 <= cur_line /\ cur_line <= Len(text))

\* C37: the screen row and the logical line agree after every key: cur_line =
\* lower_line + cur_pos.y, and the cursor's line is inside the viewport,
\* lower_line < cur_line <= upper_line. Stated outside Command mode, where the
\* cursor is parked on the bar and its row is kept in saved_pos.
C37_RowMatchesLine ==
    (~failed /\ ~hung /\ mode # "Command" /\ Len(text) >= 1) =>
        /\ cur_line = view.lower_line + cur_pos.y
        /\ view.lower_line < cur_line
        /\ cur_line <= view.upper_line

\* The last key left the editor in Visual mode.
StayedVisual == nkeys >= 1 /\ mode = "Visual" /\ ~failed /\ ~hung

\* The document position of the cursor as a selection holds it: column and
\* line from 0.
CursorCell == Coordinates(cur_pos.x - 1, cur_line - 1)

\* The start of a character-wise selection is where v was pressed.
CharacterStartFixed ==
    select_view.start =
        IF Last.mode = "Visual" THEN Last.select_view.start
        ELSE Coordinates(Last.cur_pos.x - 1, Last.cur_line - 1)

\* The start of a line-wise selection is the line where V was pressed.
LineStartFixed ==
    select_view.start =
        IF Last.mode = "Visual" THEN Last.select_view.start ELSE Last.cur_line - 1

\* C38: in Visual mode the start of the selection stays where v (or V) was
\* pressed, and after every key that leaves the editor in Visual mode the end
\* of the selection is the cursor's position in the document, (cur_pos.x - 1,
\* cur_line - 1), or the line cur_line - 1 for a line-wise selection.
C38_SelectionFollowsCursor ==
    StayedVisual =>
        CASE select_view.kind = "CharacterView" ->
                 CharacterStartFixed /\ select_view.end = CursorCell
          [] select_view.kind = "LineView" ->
                 LineStartFixed /\ select_view.end = cur_line - 1
          [] OTHER -> FALSE

\* The last key was a bare x read in Normal mode.
PressedX == KeyAt(nkeys, "x", "Normal") /\ Last.task = <<>>

\* The buffer before the last key without the character that was under the
\* cursor; the buffer itself when there was none.
WithoutCharUnderCursor ==
    IF char_at(Last.text, Last.cur_line - 1, Last.cur_pos.x - 1) = NUL
    THEN Last.text
    ELSE [Last.text EXCEPT ![Last.cur_line] = RemoveAt(@, Last.cur_pos.x - 1)]

\* C39: x in Normal mode changes at most the one character under the cursor:
\* it removes exactly that character, or leaves the buffer unchanged when
\* there is no character under the cursor (an empty line, a cursor past the
\* end); the number of lines never changes.
C39_XRemovesOneCharacter ==
    PressedX => (Len(text) = Len(Last.text) /\ text = WithoutCharUnderCursor)

\* The last key was one whose handler records what it removed on top of the
\* backward stack, x in Normal mode or d or c in Visual mode, and it removed
\* something.
RecordedRemoval ==
    /\ nkeys >= 1
    /\ ~failed
    /\ ~hung
    /\ \/ Last.mode = "Normal" /\ Last.key = "x"
       \/ Last.mode = "Visual" /\ Last.key \in {"d", "c"}
    /\ text # Last.text

\* C40: the backward stack holds an entry whenever append_key_to_top,
\* append_string_to_top or discard_key_on_top runs: in every state whose mode
\* is Insert, which is every state an Insert-mode key is handled in, and after
\* every recording by x and by Visual d or c, the backward stack is not empty,
\* so the index of its top is never computed on an empty stack.
C40_TopExistsWhenRecording ==
    /\ mode = "Insert" => ~top_missing(action_stack)
    /\ RecordedRemoval => ~top_missing(action_stack)

\* A character typed in Insert mode was recorded on the top entry.
C40_Witness ==
    /\ KeyAt(nkeys, "a", "Insert")
    /\ mode = "Insert"
    /\ ~failed
    /\ Top(action_stack.backward_stack).contents # <<>>

====
